---- MODULE Spec2Model ----
(***************************************************************************)
(* Fish history sync of atuin: the shadow log (fish's history file), the   *)
(* entry codec, the metadata index, the append engine (sync_entry), the    *)
(* retention trimmer (trim_fish_history) and the reconciliation driver     *)
(* (sync_all_entries / bootstrap_fish_history).                            *)
(*                                                                         *)
(* Text is modelled character by character: a string is a sequence of      *)
(* one-character strings, so that split, lines, starts_with, trim and the  *)
(* escaping act on the same characters as the Rust code.                   *)
(***************************************************************************)
EXTENDS Integers, Sequences, FiniteSets, Bags, TLC

(***************************************************************************)
(* String constants of the file format.                                    *)
(***************************************************************************)
\* "- cmd:"
MARKER == <<"-", " ", "c", "m", "d", ":">>
\* "- cmd: " (the second pattern of entry_exists_in_fish_history)
MARKER_SP == MARKER \o <<" ">>
\* "  when:"
WHEN_PREFIX == <<" ", " ", "w", "h", "e", "n", ":">>
\* "when:" (matched against a trimmed line)
WHEN_TRIMMED == <<"w", "h", "e", "n", ":">>
\* "  # atuin-uuid:"
UUID_PREFIX == <<" ", " ", "#", " ", "a", "t", "u", "i", "n", "-", "u", "u", "i", "d", ":">>
NL == "\n"
BACKSLASH == "\\"

(***************************************************************************)
(* Rust's str operations, on sequences of characters.                      *)
(***************************************************************************)
RECURSIVE Concat(_)
\* concatenation of a sequence of strings
Concat(ss) == IF ss = <<>> THEN <<>> ELSE Head(ss) \o Concat(Tail(ss))

\* str::starts_with
StartsWith(s, p) == Len(s) >= Len(p) /\ SubSeq(s, 1, Len(p)) = p

\* s[k..] with a 0-based byte offset k (all characters here are one byte)
SliceFrom(s, k) == SubSeq(s, k + 1, Len(s))

\* char::is_whitespace, for the characters that occur
IsWhitespace(c) == c \in {" ", "\n", "\t", "\r"}

\* str::trim_start
TrimStart(s) ==
    LET nonws == {i \in 1..Len(s) : ~IsWhitespace(s[i])}
    IN  IF nonws = {} THEN <<>>
        ELSE SubSeq(s, CHOOSE i \in nonws : \A j \in nonws : i <= j, Len(s))

\* str::trim
TrimWs(s) ==
    LET nonws == {i \in 1..Len(s) : ~IsWhitespace(s[i])}
    IN  IF nonws = {} THEN <<>>
        ELSE SubSeq(s, CHOOSE i \in nonws : \A j \in nonws : i <= j,
                       CHOOSE i \in nonws : \A j \in nonws : i >= j)

RECURSIVE TrimStartMatches(_, _)
\* str::trim_start_matches: the prefix is removed as often as it repeats
TrimStartMatches(s, p) ==
    IF p # <<>> /\ StartsWith(s, p) THEN TrimStartMatches(SliceFrom(s, Len(p)), p) ELSE s

\* positions (1-based) at which pattern p occurs in s
Occurrences(s, p) ==
    {i \in 1..(Len(s) - Len(p) + 1) : \A k \in 1..Len(p) : s[i + k - 1] = p[k]}

RECURSIVE LeftmostFrom(_, _, _)
\* of the occurrences `occ` of a pattern of length n, those a scan from the left
\* takes at or after position i: each match resumes the scan behind itself
LeftmostFrom(occ, n, i) ==
    LET later == {k \in occ : k >= i}
    IN  IF later = {} THEN <<>>
        ELSE LET k == CHOOSE x \in later : \A y \in later : x <= y
             IN  <<k>> \o LeftmostFrom(later, n, k + n)

\* the leftmost non-overlapping matches of p in s at or after position i, in order
\* (the matches str::split and str::matches use)
MatchesFrom(s, p, i) == LeftmostFrom(Occurrences(s, p), Len(p), i)

\* str::split(p), collected: the pieces between the matches, the first piece
\* (before the first match) included
Split(s, p) ==
    LET ms == MatchesFrom(s, p, 1)
        n  == Len(ms)
    IN  [k \in 1..(n + 1) |->
            SubSeq(s, IF k = 1 THEN 1 ELSE ms[k - 1] + Len(p),
                      IF k = n + 1 THEN Len(s) ELSE ms[k] - 1)]

\* str::lines, collected: split at "\n", a final empty piece dropped, a trailing
\* "\r" of each line removed
Lines(s) ==
    LET parts == Split(s, <<NL>>)
        kept  == IF parts[Len(parts)] = <<>> THEN SubSeq(parts, 1, Len(parts) - 1)
                 ELSE parts
        strip(l) == IF l # <<>> /\ l[Len(l)] = "\r" THEN SubSeq(l, 1, Len(l) - 1) ELSE l
    IN  [k \in 1..Len(kept) |-> strip(kept[k])]

RECURSIVE Replace(_, _, _)
\* str::replace(c, to) for a one-character pattern c
Replace(s, c, to) ==
    IF s = <<>> THEN <<>>
    ELSE (IF Head(s) = c THEN to ELSE <<Head(s)>>) \o Replace(Tail(s), c, to)

Digit(d) == <<"0", "1", "2", "3", "4", "5", "6", "7", "8", "9">>[d + 1]

RECURSIVE Decimal(_)
\* the decimal digits of n >= 0
Decimal(n) == IF n < 10 THEN <<Digit(n)>> ELSE Decimal(n \div 10) \o <<Digit(n % 10)>>

\* i64::to_string
I64ToString(n) == IF n < 0 THEN <<"-">> \o Decimal(0 - n) ELSE Decimal(n)

\* the two replacements in the other order
escaped_cmd_NewlineFirst(command) ==
    Replace(Replace(command, NL, <<BACKSLASH, "n">>), BACKSLASH, <<BACKSLASH, BACKSLASH>>)

(***************************************************************************)
(* Entry codec.  A History record is [id, command, timestamp]: the fields  *)
(* of History that fish_sync reads, id and command as strings, timestamp   *)
(* as history.timestamp.unix_timestamp().                                  *)
(***************************************************************************)
\* the escaping of the command: backslashes doubled, then newlines to \n
escaped_cmd(command) == Replace(Replace(command, BACKSLASH, <<BACKSLASH, BACKSLASH>>),
                                NL, <<BACKSLASH, "n">>)

format_fish_entry(history) ==
    MARKER \o escaped_cmd(history.command) \o <<NL>>
    \o WHEN_PREFIX \o I64ToString(history.timestamp) \o <<NL>>
    \o UUID_PREFIX \o history.id \o <<NL>>

(***************************************************************************)
(* Metadata index.  The file is (exists, content).                         *)
(***************************************************************************)
get_synced_uuids(exists, content) ==
    IF ~exists THEN {}
    ELSE LET lines == Lines(content)
         IN  {TrimStartMatches(lines[i], UUID_PREFIX) :
                 i \in {j \in 1..Len(lines) : StartsWith(lines[j], UUID_PREFIX)}}

\* the test of loop index i (1-based) of entry_exists_in_fish_history
EntryMatchesAt(lines, i, command, timestamp) ==
    LET line == TrimWs(lines[i])
    IN  /\ StartsWith(line, MARKER)
        /\ i + 1 <= Len(lines)
        /\ LET entry_cmd == IF Len(line) > 6 THEN TrimWs(SliceFrom(line, 6)) ELSE <<>>
               when_line == TrimWs(lines[i + 1])
           IN  /\ StartsWith(when_line, WHEN_TRIMMED)
               /\ (entry_cmd = command \/ TrimStart(SliceFrom(line, 6)) = command)
               /\ TrimWs(SliceFrom(when_line, 5)) = I64ToString(timestamp)

entry_exists_in_fish_history(exists, content, command, timestamp) ==
    /\ exists
    /\ LET lines == Lines(content)
       IN  \E i \in 1..Len(lines) : EntryMatchesAt(lines, i, command, timestamp)

(***************************************************************************)
(* Retention trimmer, the computation between its read and its write.      *)
(***************************************************************************)
\* content.split("- cmd:").skip(1)
SplitEntries(content) == Tail(Split(content, MARKER))

\* a trim that lets one entry too many stay
TrimReturnsEarly_OffByOne(exists, content, max_entries) ==
    \/ max_entries = 0
    \/ ~exists
    \/ Len(SplitEntries(content)) <= max_entries + 1

\* a trim that takes a limit of 0 as a limit
TrimReturnsEarly_ZeroIsALimit(exists, content, max_entries) ==
    \/ ~exists
    \/ Len(SplitEntries(content)) <= max_entries

\* the early returns of trim_fish_history: no limit, no file, or (once the
\* file is read) no more entries than the limit
TrimReturnsEarly(exists, content, max_entries) ==
    \/ max_entries = 0
    \/ ~exists
    \/ Len(SplitEntries(content)) <= max_entries

\* a trim that removes the oldest entry only
TrimmedContent_DropsOldestOnly(content, max_entries) ==
    LET entries == SplitEntries(content)
        to_keep == Tail(entries)
    IN  Concat([k \in 1..Len(to_keep) |-> MARKER \o to_keep[k]])

\* the string `trimmed` that trim_fish_history writes back
TrimmedContent(content, max_entries) ==
    LET entries == SplitEntries(content)
        to_keep == SubSeq(entries, Len(entries) - max_entries + 1, Len(entries))
    IN  Concat([k \in 1..Len(to_keep) |-> MARKER \o to_keep[k]])

\* trim_fish_history run without interruption on a file (exists, content): the
\* content it leaves
trim_fish_history(exists, content, max_entries) ==
    IF TrimReturnsEarly(exists, content, max_entries) THEN content
    ELSE TrimmedContent(content, max_entries)

\* content.matches("- cmd:").count(), the entry count the tests use
count_fish_entries(content) == Len(MatchesFrom(content, MARKER, 1))

(***************************************************************************)
(* Bounds of the model and the inputs drawn within them.                   *)
(***************************************************************************)
\* number of threads that call into fish_sync concurrently
NumThreads == 2
\* number of calls (sync_entry, trim, reconcile) made in one behaviour
MaxCalls == 2
\* concurrent runs: the values of settings.fish_sync.max_entries are 0..MaxBound
MaxBound == 1
\* largest number of entries in the files that trim_fish_history is run on
MaxTrimEntries == 3
\* trim runs: the values of max_entries are 0..MaxTrimBound
MaxTrimBound == 2
\* largest max_entries of the reconcile runs
MaxSyncBound == 2
\* largest number of records in the primary store
MaxDb == 2

Threads == 1..NumThreads
NONE == 0

\* the records synced in the concurrent runs: two with the same command and
\* second, one whose command holds the text "- cmd:"
HISTORIES ==
    {[id |-> <<"A">>, command |-> <<"a">>, timestamp |-> 1],
     [id |-> <<"B">>, command |-> <<"a">>, timestamp |-> 1],
     [id |-> <<"B">>, command |-> <<"b">> \o MARKER \o <<"c">>, timestamp |-> 1]}

\* an entry as fish itself writes it: a space after "cmd:" and "when:", no
\* metadata line
FishNativeEntry(command, timestamp) ==
    MARKER_SP \o command \o <<NL>> \o WHEN_PREFIX \o <<" ">>
    \o I64ToString(timestamp) \o <<NL>>

\* the records the primary store may hold: their identifiers differ
DB_RECORDS ==
    {[id |-> <<"A">>, command |-> <<"a">>, timestamp |-> 1],
     [id |-> <<"B">>, command |-> <<"b">>, timestamp |-> 1],
     [id |-> <<"C">>, command |-> <<"c">>, timestamp |-> 1]}

\* the states of the primary store: up to MaxDb of the records, in any order
DBS ==
    {d \in UNION {[1..n -> DB_RECORDS] : n \in 0..MaxDb} :
        \A i, j \in 1..Len(d) : i # j => d[i] # d[j]}

\* the entries the files of the trim runs are made of: one of an earlier sync,
\* one of fish, one of an earlier sync whose command holds the marker
ENTRY_POOL ==
    {format_fish_entry([id |-> <<"A">>, command |-> <<"a">>, timestamp |-> 1]),
     FishNativeEntry(<<"c">>, 1),
     format_fish_entry([id |-> <<"B">>, command |-> <<"b">> \o MARKER \o <<"c">>,
                        timestamp |-> 1])}

\* what a file may hold before its first entry
PREAMBLES == {<<>>, <<"x", NL>>}

\* the initial files of the concurrent runs: absent, one entry of fish, an
\* entry of an earlier sync followed by one of fish
START_FILES ==
    {[exists |-> FALSE, content |-> <<>>],
     [exists |-> TRUE, content |-> FishNativeEntry(<<"c">>, 1)],
     [exists |-> TRUE,
      content |-> format_fish_entry([id |-> <<"A">>, command |-> <<"a">>,
                                     timestamp |-> 1])
                  \o FishNativeEntry(<<"c">>, 1)]}

(***************************************************************************)
(* State.                                                                  *)
(***************************************************************************)
VARIABLES
    exists,         \* whether the fish history file exists
    content,        \* its content
    lock,           \* the thread whose open file holds the exclusive flock, or NONE
    FISH_INSTALLED, \* the OnceLock of is_fish_installed: "uninit", "running" (a
                    \* caller runs the initializer), "true", "false"
    settings,       \* settings.fish_sync: [enabled, max_entries]
    variant,        \* which crate's fish_sync runs: "client" or "daemon"
    db,             \* the primary store: the records in the order list returns them
    pc,             \* per thread: where it is
    caller,         \* per thread: the function called: "sync_entry", "trim",
                    \* "reconcile", "sync_entries", "sync_downloaded_entries"
    history,        \* per thread: the argument of the running sync_entry
    content_read,   \* per thread: the `content` trim_fish_history has read
    new_entries,    \* per thread: reconcile's records still to sync
    synced,         \* per thread: reconcile's counter
    ncalls,         \* calls made so far
    before,         \* history variable, per thread: the file when its call began
    appended,       \* history variable, per thread: the records its call has written
    content0,       \* history variable: the file content at the start
    written,        \* history variable: the records written, in the order of the writes
    returned,       \* history variable: the bag of sync_entry calls that returned
    last_return,    \* history variable: the call that returned last
    dir_exists,     \* whether the parent directory of the file exists
    attempts,       \* history variable, per thread: the sync_entry calls its call
                    \* has made and what each returned
    faults,         \* history variable: the I/O failures so far
    batch,          \* history variable, per thread: the records its batch call
                    \* set out to sync
    cmd,            \* the run of `atuin sync`: where it is, what it has seen
    once,           \* history variable: how often is_fish_installed has run its
                    \* command, and the values its calls have returned
    pid_file        \* the file named by ATUIN_SYNC_PID_FILE and the `atuin sync`
                    \* processes that use it

vars == <<exists, content, lock, FISH_INSTALLED, settings, variant, db, pc, caller,
          history, content_read, new_entries, synced, ncalls, before, appended,
          content0, written, returned, last_return, dir_exists, attempts, faults,
          batch, cmd, once, pid_file>>

NoOnce == [probes |-> 0, seen |-> {}]
NoPidFile == [env |-> FALSE, content |-> 0, procs |-> <<>>]

NoHistory == [id |-> <<>>, command |-> <<>>, timestamp |-> 0]
NoFile == [exists |-> FALSE, content |-> <<>>, call |-> 0, dir |-> FALSE]
NoReturn == [op |-> "none", history |-> NoHistory, before |-> NoFile,
             after |-> [exists |-> FALSE, content |-> <<>>, dir |-> FALSE],
             appended |-> <<>>, count |-> 0, result |-> "none", attempts |-> <<>>,
             value |-> <<>>, batch |-> <<>>]

\* no `atuin sync` is running
NoCmd == [pc |-> "none"]

InitThreads ==
    /\ lock = NONE
    /\ FISH_INSTALLED = "uninit"
    /\ pc = [t \in Threads |-> "idle"]
    /\ attempts = [t \in Threads |-> <<>>]
    /\ faults = <<>>
    /\ batch = [t \in Threads |-> <<>>]
    /\ cmd = NoCmd
    /\ once = NoOnce
    /\ pid_file = NoPidFile
    /\ caller = [t \in Threads |-> "none"]
    /\ history = [t \in Threads |-> NoHistory]
    /\ content_read = [t \in Threads |-> <<>>]
    /\ new_entries = [t \in Threads |-> <<>>]
    /\ synced = [t \in Threads |-> 0]
    /\ before = [t \in Threads |-> NoFile]
    /\ appended = [t \in Threads |-> <<>>]
    /\ ncalls = 0
    /\ written = <<>>
    /\ returned = EmptyBag
    /\ last_return = NoReturn

\* Concurrent runs of one crate's sync_entry: the file is absent or holds some
\* entries, the configuration is any.
InitVariant(v) ==
    /\ \E f \in START_FILES : exists = f.exists /\ content = f.content
    /\ content0 = content
    /\ settings \in [enabled : BOOLEAN, max_entries : 0..MaxBound]
    /\ variant = v
    /\ db = <<>>
    /\ dir_exists = TRUE
    /\ InitThreads

(***************************************************************************)
(* Calls and returns.                                                      *)
(***************************************************************************)
\* Threads are interchangeable: a call is made on the lowest idle one.
LowestIdle(t) == pc[t] = "idle" /\ \A u \in Threads : u < t => pc[u] # "idle"

\* the file as a call finds it
FileNow == [exists |-> exists, content |-> content, call |-> ncalls + 1,
            dir |-> dir_exists]

\* a daemon that looks for the identifier in the file as the client does
AfterGuards_AlwaysCheckUuid == "check_uuid"

\* a client that opens the file without looking into it first
AfterGuards_NeverChecks == "open"

\* where sync_entry goes on once its guards have passed
AfterGuards == IF variant = "client" THEN "check_uuid" ELSE "open"

\* is_fish_installed(): the value the OnceLock holds after get_or_init, `probe`
\* being what running "fish --version" would give
is_fish_installed(probe) == IF FISH_INSTALLED = "uninit" THEN probe ELSE FISH_INSTALLED

\* what a call of is_fish_installed() that finds no initializer running leaves
\* behind: the command has run if the OnceLock was empty, and the value of the
\* OnceLock was returned
OnceAfterCall(called) ==
    IF ~called THEN once
    ELSE [probes |-> IF FISH_INSTALLED = "uninit" THEN once.probes + 1 ELSE once.probes,
          seen |-> once.seen \cup {FISH_INSTALLED'}]

\* the thread is idle again
BecomeIdle(t) ==
    /\ pc' = [pc EXCEPT ![t] = "idle"]
    /\ caller' = [caller EXCEPT ![t] = "none"]
    /\ history' = [history EXCEPT ![t] = NoHistory]
    /\ new_entries' = [new_entries EXCEPT ![t] = <<>>]
    /\ synced' = [synced EXCEPT ![t] = 0]
    /\ before' = [before EXCEPT ![t] = NoFile]
    /\ appended' = [appended EXCEPT ![t] = <<>>]
    /\ attempts' = [attempts EXCEPT ![t] = <<>>]

\* the functions that call sync_entry for one record after the other
BATCHES == {"reconcile", "sync_entries", "sync_downloaded_entries"}

\* a batch that stops at the first record whose sync_entry fails
BatchAfterError_Stops(records) == <<>>

\* the records a batch goes on with after the sync_entry of one failed: the
\* error is logged and the loop continues
BatchAfterError(records) == records

\* the first step of sync_entry once its guards have passed: the parent
\* directory is created when it does not exist
FirstStep(dir) == IF dir THEN AfterGuards ELSE "mkdir"

\* a sync_entry whose open file outlives the call
LockAfterReturn_Leaked(t) == lock

\* who holds the lock once the function thread t runs has returned: its file,
\* if it had one open, is dropped, and the lock it held is free
LockAfterReturn(t) == IF lock = t THEN NONE ELSE lock

\* The running sync_entry or trim_fish_history of thread t returns `result`:
\* "ok" for Ok(()), "err" for an error.  The open file of sync_entry, if any,
\* is dropped, which releases the lock.  Inside a batch the error is logged,
\* an Ok is counted (client), and the loop goes on with the next record
\* (whose guards pass again), or the batch returns too: sync_all_entries with
\* Ok(synced), the others with Ok(()).
Return(t, result) ==
    LET wrote == caller[t] # "trim" /\ appended[t] # <<>>
                 /\ appended[t][Len(appended[t])] = history[t]
                 /\ pc[t] \in {"write", "trim", "trim_create", "trim_write"}
        one   == [history |-> history[t], wrote |-> wrote]
        rest  == IF result = "ok" THEN Tail(new_entries[t])
                 ELSE BatchAfterError(Tail(new_entries[t]))
        count == IF variant = "client"
                 THEN (IF result = "ok" THEN synced[t] + 1 ELSE synced[t])
                 ELSE 0
        after == [exists |-> exists', content |-> content', dir |-> dir_exists']
        tried == IF caller[t] = "trim" THEN <<>>
                 ELSE Append(attempts[t], [history |-> history[t], result |-> result])
    IN  /\ lock' = LockAfterReturn(t)
        /\ content_read' = [content_read EXCEPT ![t] = <<>>]
        /\ returned' = IF caller[t] = "trim" \/ result # "ok" THEN returned
                       ELSE returned (+) SetToBag({one})
        /\ IF caller[t] \in BATCHES /\ rest # <<>>
           THEN /\ pc' = [pc EXCEPT ![t] = FirstStep(dir_exists')]
                /\ history' = [history EXCEPT ![t] = Head(rest)]
                /\ new_entries' = [new_entries EXCEPT ![t] = rest]
                /\ synced' = [synced EXCEPT ![t] = count]
                /\ attempts' = [attempts EXCEPT ![t] = tried]
                /\ UNCHANGED <<caller, before, appended, last_return>>
           ELSE /\ BecomeIdle(t)
                /\ last_return' =
                       [op |-> caller[t],
                        history |-> IF caller[t] = "sync_entry" THEN history[t]
                                    ELSE NoHistory,
                        before |-> before[t], after |-> after,
                        appended |-> appended[t],
                        count |-> IF caller[t] = "reconcile" THEN count ELSE 0,
                        result |-> IF caller[t] \in BATCHES THEN "ok" ELSE result,
                        attempts |-> tried,
                        value |-> <<>>,
                        batch |-> batch[t]]

\* sync_entry or trim_fish_history returns Ok(())
ReturnOk(t) == Return(t, "ok")

\* sync_entry or trim_fish_history returns the error of the step that failed
ReturnErr(t) == Return(t, "err")

\* A thread calls sync_entry(history, settings).  The guards at the top:
\* disabled or no fish returns Ok(()) at once.
CallSyncEntry(t, h) ==
    /\ LowestIdle(t)
    /\ ncalls < MaxCalls
    /\ ncalls' = ncalls + 1
    /\ UNCHANGED <<exists, content, lock, settings, variant, db, content_read,
                   new_entries, synced, appended, content0, written, dir_exists,
                   attempts, faults, batch, cmd, pid_file>>
    /\ \E probe \in {"true", "false"} :
          /\ FISH_INSTALLED' = IF settings.enabled THEN is_fish_installed(probe)
                               ELSE FISH_INSTALLED
          /\ once' = OnceAfterCall(settings.enabled)
          /\ IF ~settings.enabled \/ FISH_INSTALLED' = "false"
             THEN /\ returned' = returned (+) SetToBag({[history |-> h, wrote |-> FALSE]})
                  /\ last_return' =
                        [op |-> "sync_entry", history |-> h, before |-> FileNow,
                         after |-> [exists |-> exists, content |-> content,
                                    dir |-> dir_exists],
                         appended |-> <<>>, count |-> 0, result |-> "ok",
                         attempts |-> <<[history |-> h, result |-> "ok"]>>,
                         value |-> <<>>, batch |-> <<>>]
                  /\ UNCHANGED <<pc, caller, history, before>>
             ELSE /\ pc' = [pc EXCEPT ![t] = FirstStep(dir_exists)]
                  /\ caller' = [caller EXCEPT ![t] = "sync_entry"]
                  /\ history' = [history EXCEPT ![t] = h]
                  /\ before' = [before EXCEPT ![t] = FileNow]
                  /\ UNCHANGED <<returned, last_return>>

(***************************************************************************)
(* sync_entry, one action per step that reads or writes the file.          *)
(***************************************************************************)
\* client only: the UUID deduplication, one read of the file
CheckUuid(t) ==
    /\ UNCHANGED <<dir_exists, faults, batch, cmd, once, pid_file>>
    /\ pc[t] = "check_uuid"
    /\ UNCHANGED <<exists, content, FISH_INSTALLED, settings, variant, db, ncalls,
                   content0, written>>
    /\ IF exists /\ history[t].id \in get_synced_uuids(exists, content)
       THEN ReturnOk(t)
       ELSE /\ pc' = [pc EXCEPT ![t] = IF exists THEN "check_cmd" ELSE "open"]
            /\ UNCHANGED <<lock, caller, history, content_read, new_entries, synced,
                           before, appended, returned, last_return, attempts>>

\* client only: the command+timestamp deduplication, a second read of the file
CheckCmd(t) ==
    /\ UNCHANGED <<dir_exists, faults, batch, cmd, once, pid_file>>
    /\ pc[t] = "check_cmd"
    /\ UNCHANGED <<exists, content, FISH_INSTALLED, settings, variant, db, ncalls,
                   content0, written>>
    /\ IF entry_exists_in_fish_history(exists, content, history[t].command,
                                       history[t].timestamp)
       THEN ReturnOk(t)
       ELSE /\ pc' = [pc EXCEPT ![t] = "open"]
            /\ UNCHANGED <<lock, caller, history, content_read, new_entries, synced,
                           before, appended, returned, last_return, attempts>>

\* OpenOptions::new().create(true).append(true).open(path), which creates the
\* file but not its directory
Open(t) ==
    /\ dir_exists
    /\ UNCHANGED <<dir_exists, attempts, faults, batch, cmd, once, pid_file>>
    /\ pc[t] = "open"
    /\ exists' = TRUE
    /\ pc' = [pc EXCEPT ![t] = IF variant = "client" THEN "lock" ELSE "write"]
    /\ UNCHANGED <<content, lock, FISH_INSTALLED, settings, variant, db, caller, history,
                   content_read, new_entries, synced, ncalls, before, appended,
                   content0, written, returned, last_return>>

\* client only: file.lock_exclusive(), which blocks while another open file
\* holds the lock
LockExclusive(t) ==
    /\ UNCHANGED <<dir_exists, attempts, faults, batch, cmd, once, pid_file>>
    /\ pc[t] = "lock"
    /\ lock = NONE
    /\ lock' = t
    /\ pc' = [pc EXCEPT ![t] = "write"]
    /\ UNCHANGED <<exists, content, FISH_INSTALLED, settings, variant, db, caller,
                   history, content_read, new_entries, synced, ncalls, before, appended,
                   content0, written, returned, last_return>>

\* a sync_entry that drops its file as soon as the entry is flushed
LockAfterFlush_Released(t) == NONE

\* who holds the lock once thread t has flushed its entry: `file` stays in
\* scope until sync_entry returns, so nothing is released here
LockAfterFlush(t) == lock

\* a file opened with truncate(true) instead of append(true)
AppendTo_Truncating(old, entry) == entry

\* what write_all(entry) leaves of a file holding `old` that was opened with
\* append(true): every write goes to the end
AppendTo(old, entry) == old \o entry

\* file.write_all(entry) on the O_APPEND file, and flush (which does nothing on
\* a File): the entry lands at the end of the file in one write
Write(t) ==
    /\ UNCHANGED <<dir_exists, attempts, faults, batch, cmd, once, pid_file>>
    /\ pc[t] = "write"
    /\ content' = AppendTo(content, format_fish_entry(history[t]))
    /\ appended' = [appended EXCEPT ![t] = Append(@, history[t])]
    /\ written' = Append(written, history[t])
    /\ pc' = [pc EXCEPT ![t] = "trim"]
    /\ lock' = LockAfterFlush(t)
    /\ UNCHANGED <<exists, FISH_INSTALLED, settings, variant, db, caller, history,
                   content_read, new_entries, synced, ncalls, before, content0,
                   returned, last_return>>

(***************************************************************************)
(* trim_fish_history, called at the end of sync_entry (whose file is still *)
(* open then, so the client still holds its lock) or directly.             *)
(***************************************************************************)
CallTrim(t) ==
    /\ UNCHANGED <<dir_exists, attempts, faults, batch, cmd, once, pid_file>>
    /\ LowestIdle(t)
    /\ ncalls < MaxCalls
    /\ ncalls' = ncalls + 1
    /\ pc' = [pc EXCEPT ![t] = "trim"]
    /\ caller' = [caller EXCEPT ![t] = "trim"]
    /\ before' = [before EXCEPT ![t] = FileNow]
    /\ UNCHANGED <<exists, content, lock, FISH_INSTALLED, settings, variant, db, history,
                   content_read, new_entries, synced, appended, content0, written,
                   returned, last_return>>

\* the early returns of trim_fish_history and its read of the file
TrimRead(t) ==
    /\ UNCHANGED <<dir_exists, faults, batch, cmd, once, pid_file>>
    /\ pc[t] = "trim"
    /\ UNCHANGED <<exists, content, FISH_INSTALLED, settings, variant, db, ncalls,
                   content0, written>>
    /\ IF TrimReturnsEarly(exists, content, settings.max_entries)
       THEN ReturnOk(t)
       ELSE /\ content_read' = [content_read EXCEPT ![t] = content]
            /\ pc' = [pc EXCEPT ![t] = "trim_create"]
            /\ UNCHANGED <<lock, caller, history, new_entries, synced, before, appended,
                           returned, last_return, attempts>>

\* fs::write, first half: File::create truncates the file
TrimCreate(t) ==
    /\ UNCHANGED <<dir_exists, attempts, faults, batch, cmd, once, pid_file>>
    /\ pc[t] = "trim_create"
    /\ exists' = TRUE
    /\ content' = <<>>
    /\ pc' = [pc EXCEPT ![t] = "trim_write"]
    /\ UNCHANGED <<lock, FISH_INSTALLED, settings, variant, db, caller, history,
                   content_read, new_entries, synced, ncalls, before, appended,
                   content0, written, returned, last_return>>

\* what a write of `data` at offset 0 leaves of a file holding `old`
WriteAtStart(data, old) == data \o SubSeq(old, Len(data) + 1, Len(old))

\* fs::write, second half: write_all of `trimmed` from offset 0
TrimWrite(t) ==
    /\ UNCHANGED <<dir_exists, faults, batch, cmd, once, pid_file>>
    /\ pc[t] = "trim_write"
    /\ content' = WriteAtStart(TrimmedContent(content_read[t], settings.max_entries),
                               content)
    /\ UNCHANGED <<exists, FISH_INSTALLED, settings, variant, db, ncalls, content0,
                   written>>
    /\ ReturnOk(t)

(***************************************************************************)
(* Specifications of concurrent sync_entry calls, one per crate.           *)
(***************************************************************************)
SyncEntryStep(t) ==
    \/ CheckUuid(t)
    \/ CheckCmd(t)
    \/ Open(t)
    \/ LockExclusive(t)
    \/ Write(t)
    \/ TrimRead(t)
    \/ TrimCreate(t)
    \/ TrimWrite(t)

NextClient ==
    \E t \in Threads :
        \/ \E h \in HISTORIES : CallSyncEntry(t, h)
        \/ SyncEntryStep(t)

\* The daemon's sync_entry compares no record with the file, so two records
\* that differ in identifier and command stand for all.
NextDaemon ==
    \E t \in Threads :
        \/ \E h \in {x \in HISTORIES : x.id = <<"A">> \/ x.command # <<"a">>} :
              CallSyncEntry(t, h)
        \/ Open(t) \/ Write(t) \/ TrimRead(t) \/ TrimCreate(t) \/ TrimWrite(t)

SpecClient == InitVariant("client") /\ [][NextClient]_vars

SpecDaemon == InitVariant("daemon") /\ [][NextDaemon]_vars

\* thread t is inside a function and its next step can be taken: every step
\* but lock_exclusive, which waits until the lock is free, and open, which
\* needs the directory
ThreadCanStep(t) ==
    /\ pc[t] # "idle"
    /\ pc[t] = "lock" => lock = NONE
    /\ pc[t] = "open" => dir_exists

\* Thread t keeps running: it is not for ever able to take a step of its
\* sync_entry without taking one.  This is weak fairness of SyncEntryStep(t),
\* WF_vars(SyncEntryStep(t)), with the condition under which the step can be
\* taken written out.
ThreadRuns(t) ==
    \/ []<>~ThreadCanStep(t)
    \/ []<><<SyncEntryStep(t)>>_vars

\* The client's calls for two records with fish sync enabled
InitFairClient == InitVariant("client") /\ settings.enabled

NextFairClient ==
    \E t \in Threads :
        \/ \E h \in {x \in HISTORIES : x.command = <<"a">>} : CallSyncEntry(t, h)
        \/ SyncEntryStep(t)

\* The client's calls with threads that keep running.  lock_exclusive wakes
\* when the lock is free; as the calls are finitely many, no more is needed.
FairClient ==
    /\ InitFairClient
    /\ [][NextFairClient]_vars
    /\ \A t \in Threads : ThreadRuns(t)

(***************************************************************************)
(* Specification of sync_entry calls made one after the other, by either   *)
(* crate.                                                                  *)
(***************************************************************************)
AllIdle == \A t \in Threads : pc[t] = "idle"

Init ==
    /\ \E f \in START_FILES : exists = f.exists /\ content = f.content
    /\ content0 = content
    /\ settings \in [enabled : BOOLEAN, max_entries : 0..MaxBound]
    /\ variant \in {"client", "daemon"}
    /\ db = <<>>
    /\ dir_exists = TRUE
    /\ InitThreads

Next ==
    \/ \E h \in HISTORIES : AllIdle /\ CallSyncEntry(1, h)
    \/ SyncEntryStep(1)

Spec == Init /\ [][Next]_vars

(***************************************************************************)
(* Reconcile: sync_all_entries of the client, bootstrap_fish_history of    *)
(* the daemon.                                                             *)
(***************************************************************************)
\* history_db.list(filters, context, Some(max), false, false): the most recent
\* `max` records, or all of them when max is 0; db holds the most recent first
list(max) == IF max = 0 \/ max >= Len(db) THEN db ELSE SubSeq(db, 1, max)

\* a reconcile that asks the store for one record more
Limit_OneMore == settings.max_entries + 1

\* the limit reconcile hands to list: Some(settings.fish_sync.max_entries)
Limit == settings.max_entries

\* a reconcile that syncs the whole window again
NewEntries_Unfiltered(entries, synced_uuids) == entries

\* a reconcile that goes through the new records backwards
NewEntries_Reversed(entries, synced_uuids) ==
    LET new == SelectSeq(entries, LAMBDA entry : entry.id \notin synced_uuids)
    IN  [i \in 1..Len(new) |-> new[Len(new) + 1 - i]]

\* entries.into_iter().filter(|entry| !synced_uuids.contains(entry.id)).collect()
NewEntries(entries, synced_uuids) ==
    SelectSeq(entries, LAMBDA entry : entry.id \notin synced_uuids)

\* A thread calls reconcile.  Disabled, no fish or nothing new returns at once
\* (the client with Ok(0)); otherwise the loop starts with the first new record.
CallReconcile(t) ==
    /\ LowestIdle(t)
    /\ ncalls < MaxCalls
    /\ ncalls' = ncalls + 1
    /\ UNCHANGED <<exists, content, lock, settings, variant, db, content_read, synced,
                   appended, content0, written, returned, dir_exists, attempts,
                   faults, cmd, pid_file>>
    /\ \E probe \in {"true", "false"} :
          LET new == NewEntries(list(Limit), get_synced_uuids(exists, content))
          IN  /\ FISH_INSTALLED' = IF settings.enabled THEN is_fish_installed(probe)
                                    ELSE FISH_INSTALLED
              /\ once' = OnceAfterCall(settings.enabled)
              /\ IF ~settings.enabled \/ FISH_INSTALLED' = "false" \/ new = <<>>
                 THEN /\ last_return' =
                            [op |-> "reconcile", history |-> NoHistory,
                             before |-> FileNow,
                             after |-> [exists |-> exists, content |-> content,
                                        dir |-> dir_exists],
                             appended |-> <<>>, count |-> 0, result |-> "ok",
                             attempts |-> <<>>, value |-> <<>>, batch |-> <<>>]
                      /\ UNCHANGED <<pc, caller, history, new_entries, before, batch>>
                 ELSE /\ pc' = [pc EXCEPT ![t] = FirstStep(dir_exists)]
                      /\ caller' = [caller EXCEPT ![t] = "reconcile"]
                      /\ history' = [history EXCEPT ![t] = Head(new)]
                      /\ new_entries' = [new_entries EXCEPT ![t] = new]
                      /\ batch' = [batch EXCEPT ![t] = new]
                      /\ before' = [before EXCEPT ![t] = FileNow]
                      /\ UNCHANGED last_return

InitReconcile ==
    /\ \E f \in START_FILES : exists = f.exists /\ content = f.content
    /\ content0 = content
    /\ settings \in [enabled : BOOLEAN, max_entries : 0..MaxSyncBound]
    /\ variant \in {"client", "daemon"}
    /\ db \in DBS
    /\ dir_exists = TRUE
    /\ InitThreads

\* reconcile called again and again, nothing else running
NextReconcile ==
    \/ AllIdle /\ CallReconcile(1)
    \/ SyncEntryStep(1)

SpecReconcile == InitReconcile /\ [][NextReconcile]_vars

(***************************************************************************)
(* Specification of trim_fish_history called directly, twice in a row, on  *)
(* a file made of a preamble and up to MaxTrimEntries entries.             *)
(***************************************************************************)
InitTrim ==
    /\ \E p \in PREAMBLES, n \in 0..MaxTrimEntries : \E es \in [1..n -> ENTRY_POOL] :
          content = p \o Concat(es)
    /\ exists \in {TRUE, content # <<>>}
    /\ content0 = content
    /\ settings \in [enabled : {TRUE}, max_entries : 0..MaxTrimBound]
    /\ variant \in {"client", "daemon"}
    /\ db = <<>>
    /\ dir_exists = TRUE
    /\ InitThreads

NextTrim ==
    \/ AllIdle /\ CallTrim(1)
    \/ TrimRead(1)
    \/ TrimCreate(1)
    \/ TrimWrite(1)

SpecTrim == InitTrim /\ [][NextTrim]_vars

(***************************************************************************)
(* I/O failures, the creation of the parent directory, and the batch       *)
(* functions sync_entries (daemon) and sync_downloaded_entries (client).   *)
(***************************************************************************)
\* number of I/O failures in one behaviour
MaxFaults == 2
\* largest number of records or identifiers a batch function is called with
MaxBatch == 2

\* sync_entry: create_dir_all(parent) when the parent directory does not exist
EnsureParentDir(t) ==
    /\ pc[t] = "mkdir"
    /\ dir_exists' = TRUE
    /\ pc' = [pc EXCEPT ![t] = AfterGuards]
    /\ UNCHANGED <<exists, content, lock, FISH_INSTALLED, settings, variant, db, caller,
                   history, content_read, new_entries, synced, ncalls, before, appended,
                   content0, written, returned, last_return, attempts, faults, batch,
                   cmd, once, pid_file>>

\* what a write_all that fails may have put into the file: nothing, or the
\* first part of the data
WriteLeft(data) == {SubSeq(data, 1, k) : k \in {0, Len(data) \div 2}}

\* a step that swallows the error and reports success
OnError_Swallowed(t) == ReturnOk(t)

\* `?` on the Result of a step: the error is returned to the caller at once
OnError(t) == ReturnErr(t)

\* A step of sync_entry or of trim_fish_history fails: create_dir_all, the
\* reads of the deduplication, open (always when the directory is missing),
\* lock_exclusive, write_all (which may leave part of the entry), flush, the
\* read of trim_fish_history, and the two halves of its fs::write.
FailIo(t) ==
    /\ Len(faults) < MaxFaults
    /\ \/ /\ pc[t] \in {"mkdir", "open", "lock", "trim_create"}
          /\ UNCHANGED content
       \/ /\ pc[t] \in {"check_uuid", "check_cmd"}
          /\ exists
          /\ UNCHANGED content
       \/ /\ pc[t] = "trim"
          /\ caller[t] # "trim" \/ (settings.max_entries # 0 /\ exists)
          /\ UNCHANGED content
       \/ /\ pc[t] = "write"
          /\ \E part \in WriteLeft(format_fish_entry(history[t])) :
                content' = content \o part
       \/ /\ pc[t] = "trim_write"
          /\ \E part \in WriteLeft(TrimmedContent(content_read[t], settings.max_entries)) :
                content' = WriteAtStart(part, content)
    /\ faults' = Append(faults,
                        [call |-> ncalls, history |-> history[t],
                         at |-> IF pc[t] = "trim" /\ caller[t] # "trim"
                                   /\ (settings.max_entries = 0 \/ ~exists)
                                THEN "flush" ELSE pc[t],
                         injected |-> ~(pc[t] = "open" /\ ~dir_exists),
                         attempt |-> Len(attempts[t]) + 1,
                         after |-> [exists |-> exists, content |-> content',
                                    dir |-> dir_exists]])
    /\ UNCHANGED <<exists, FISH_INSTALLED, settings, variant, db, ncalls, content0,
                   written, dir_exists, batch, cmd, once, pid_file>>
    /\ OnError(t)

\* the bag of sync_entry calls that returned Ok(()) without writing
RECURSIVE SkippedBag(_)
SkippedBag(records) ==
    IF records = <<>> THEN EmptyBag
    ELSE SetToBag({[history |-> Head(records), wrote |-> FALSE]})
         (+) SkippedBag(Tail(records))

\* a batch function that looks at the list only
BatchIsNoOp_IgnoresSetting(records) == records = <<>>

\* if !settings.fish_sync.enabled || entries.is_empty() { return Ok(()) }
BatchIsNoOp(records) == ~settings.enabled \/ records = <<>>

\* A batch function begins its loop over `records`: disabled or nothing to do
\* returns Ok(()) at once; without fish every sync_entry of the loop returns
\* Ok(()) at once; otherwise the first record's sync_entry passes its guards.
StartBatch(t, op, records) ==
    /\ LowestIdle(t)
    /\ ncalls < MaxCalls
    /\ ncalls' = ncalls + 1
    /\ UNCHANGED <<exists, content, lock, settings, variant, db, content_read, synced,
                   appended, content0, written, dir_exists, attempts, faults, cmd, pid_file>>
    /\ \E probe \in {"true", "false"} :
          LET called == ~BatchIsNoOp(records)
          IN  /\ FISH_INSTALLED' = IF called THEN is_fish_installed(probe)
                                    ELSE FISH_INSTALLED
              /\ once' = OnceAfterCall(called)
              /\ IF ~called \/ FISH_INSTALLED' = "false"
                 THEN /\ last_return' =
                            [op |-> op, history |-> NoHistory, before |-> FileNow,
                             after |-> [exists |-> exists, content |-> content,
                                        dir |-> dir_exists],
                             appended |-> <<>>, count |-> 0, result |-> "ok",
                             attempts |-> IF called
                                          THEN [i \in 1..Len(records) |->
                                                  [history |-> records[i],
                                                   result |-> "ok"]]
                                          ELSE <<>>,
                             value |-> <<>>,
                             batch |-> IF called THEN records ELSE <<>>]
                      /\ returned' = IF called THEN returned (+) SkippedBag(records)
                                     ELSE returned
                      /\ UNCHANGED <<pc, caller, history, new_entries, before, batch>>
                 ELSE /\ pc' = [pc EXCEPT ![t] = FirstStep(dir_exists)]
                      /\ caller' = [caller EXCEPT ![t] = op]
                      /\ history' = [history EXCEPT ![t] = Head(records)]
                      /\ new_entries' = [new_entries EXCEPT ![t] = records]
                      /\ batch' = [batch EXCEPT ![t] = records]
                      /\ before' = [before EXCEPT ![t] = FileNow]
                      /\ UNCHANGED <<returned, last_return>>

\* daemon: sync_entries(entries, settings)
CallSyncEntries(t, entries) ==
    /\ variant = "daemon"
    /\ StartBatch(t, "sync_entries", entries)

\* history_db.load(id): the record of the store with that identifier, if any
load(id) == SelectSeq(db, LAMBDA r : r.id = id)

\* client: sync_downloaded_entries(settings, history_db, downloaded_ids); the
\* identifiers that the store does not hold are passed over
CallSyncDownloadedEntries(t, downloaded_ids) ==
    /\ variant = "client"
    /\ StartBatch(t, "sync_downloaded_entries",
                  Concat([i \in 1..Len(downloaded_ids) |-> load(downloaded_ids[i])]))

\* the lists of records sync_entries is called with: as for the concurrent
\* runs of the daemon, two records stand for all
ENTRY_LISTS ==
    UNION {[1..n -> {x \in HISTORIES : x.id = <<"A">> \/ x.command # <<"a">>}] :
              n \in 0..MaxBatch}

\* the lists of identifiers sync_downloaded_entries is called with; the store
\* may hold the record of an identifier or not
ID_LISTS == UNION {[1..n -> {<<"A">>, <<"B">>}] : n \in 0..MaxBatch}

\* Any configuration, either crate, the directory of the file present or not
\* (and then the file is absent too).
InitFaults ==
    /\ \E f \in START_FILES : exists = f.exists /\ content = f.content
    /\ dir_exists \in {TRUE, exists}
    /\ content0 = content
    /\ settings \in [enabled : BOOLEAN, max_entries : 0..MaxBound]
    /\ variant \in {"client", "daemon"}
    /\ db \in {d \in DBS : Len(d) = MaxDb}
    /\ InitThreads

\* one call of any of the functions, any of its steps failing
NoCallYet == AllIdle /\ ncalls = 0

NextFaults ==
    \/ \E h \in HISTORIES : NoCallYet /\ CallSyncEntry(1, h)
    \/ NoCallYet /\ CallReconcile(1)
    \/ \E entries \in ENTRY_LISTS : NoCallYet /\ CallSyncEntries(1, entries)
    \/ \E ids \in ID_LISTS : NoCallYet /\ CallSyncDownloadedEntries(1, ids)
    \/ EnsureParentDir(1)
    \/ SyncEntryStep(1)
    \/ FailIo(1)

SpecFaults == InitFaults /\ [][NextFaults]_vars

(***************************************************************************)
(* The functions that read the file back: get_synced_uuids and the         *)
(* daemon's get_last_synced_timestamp.  An Option<i64> is a sequence:      *)
(* <<>> for None, <<n>> for Some(n).                                       *)
(***************************************************************************)
IsDigit(c) == c \in {"0", "1", "2", "3", "4", "5", "6", "7", "8", "9"}

DigitValue(c) == CHOOSE d \in 0..9 : Digit(d) = c

RECURSIVE DigitsValue(_)
\* the number a non-empty sequence of digits stands for
DigitsValue(ds) ==
    IF Len(ds) = 1 THEN DigitValue(ds[1])
    ELSE 10 * DigitsValue(SubSeq(ds, 1, Len(ds) - 1)) + DigitValue(ds[Len(ds)])

\* a parse that knows no sign
ParseI64_Unsigned(s) ==
    IF s = <<>> \/ \E i \in 1..Len(s) : ~IsDigit(s[i]) THEN <<>>
    ELSE <<DigitsValue(s)>>

\* str::parse::<i64>().ok(): an optional sign, then one digit or more and
\* nothing else (no space); the numbers here are far from the limits of i64
ParseI64(s) ==
    LET signed == s # <<>> /\ Head(s) \in {"+", "-"}
        digits == IF signed THEN Tail(s) ELSE s
    IN  IF digits = <<>> \/ \E i \in 1..Len(digits) : ~IsDigit(digits[i]) THEN <<>>
        ELSE IF signed /\ Head(s) = "-" THEN <<0 - DigitsValue(digits)>>
        ELSE <<DigitsValue(digits)>>

\* a get_last_synced_timestamp that takes the first timestamp line
get_last_synced_timestamp_First(file_exists, file_content) ==
    IF ~file_exists THEN <<>>
    ELSE LET lines == Lines(file_content)
             found == {i \in 1..Len(lines) : StartsWith(lines[i], WHEN_PREFIX)}
         IN  IF found = {} THEN <<>>
             ELSE LET first == CHOOSE i \in found : \A j \in found : i <= j
                  IN  ParseI64(TrimStartMatches(lines[first], WHEN_PREFIX))

\* content.lines().rev().find(|line| line.starts_with("  when:"))
\*     .and_then(|line| line.trim_start_matches("  when:").parse::<i64>().ok())
get_last_synced_timestamp(file_exists, file_content) ==
    IF ~file_exists THEN <<>>
    ELSE LET lines == Lines(file_content)
             found == {i \in 1..Len(lines) : StartsWith(lines[i], WHEN_PREFIX)}
         IN  IF found = {} THEN <<>>
             ELSE LET last == CHOOSE i \in found : \A j \in found : j <= i
                  IN  ParseI64(TrimStartMatches(lines[last], WHEN_PREFIX))

\* A function that only reads the file is called and returns `value`.
CallScan(t, op, value) ==
    /\ LowestIdle(t)
    /\ ncalls < MaxCalls
    /\ ncalls' = ncalls + 1
    /\ last_return' = [NoReturn EXCEPT !.op = op, !.before = FileNow,
                                       !.after = [exists |-> exists, content |-> content,
                                                  dir |-> dir_exists],
                                       !.result = "ok", !.value = value]
    /\ UNCHANGED <<exists, content, lock, FISH_INSTALLED, settings, variant, db, pc,
                   caller, history, content_read, new_entries, synced, before, appended,
                   content0, written, returned, dir_exists, attempts, faults, batch,
                   cmd, once, pid_file>>

CallGetSyncedUuids(t) ==
    CallScan(t, "get_synced_uuids", get_synced_uuids(exists, content))

CallGetLastSyncedTimestamp(t) ==
    /\ variant = "daemon"
    /\ CallScan(t, "get_last_synced_timestamp", get_last_synced_timestamp(exists, content))

(***************************************************************************)
(* Specification of the encoding: the daemon appends one record, whose     *)
(* command is any text over a few characters, to an absent, an empty or a  *)
(* filled file, and the file is read back.                                 *)
(***************************************************************************)
\* largest length of the commands
MaxCmdLen == 2

\* the characters of the commands: the two that are escaped, the letter the
\* escape of a newline ends with, and a tab
CMD_CHARS == {BACKSLASH, NL, "n", "\t"}

\* timestamps and their decimal notation
TIMESTAMPS ==
    {[n |-> 0 - 12, s |-> <<"-", "1", "2">>], [n |-> 0, s |-> <<"0">>],
     [n |-> 7, s |-> <<"7">>], [n |-> 105, s |-> <<"1", "0", "5">>]}

\* identifiers: a letter, and one shaped like a UUID
IDS == {<<"A">>, <<"0", "1", "-", "a", "b">>}

\* the commands of the records: every short text over these characters, and
\* the command that holds the text "- cmd:"
CODEC_COMMANDS ==
    UNION {[1..n -> CMD_CHARS] : n \in 0..MaxCmdLen} \cup {<<"b">> \o MARKER \o <<"c">>}

CODEC_RECORDS == [id : IDS, command : CODEC_COMMANDS, timestamp : {ts.n : ts \in TIMESTAMPS}]

InitCodec ==
    /\ \E f \in START_FILES \cup {[exists |-> TRUE, content |-> <<>>]} :
          exists = f.exists /\ content = f.content
    /\ content0 = content
    /\ settings \in [enabled : {TRUE}, max_entries : 0..MaxBound]
    /\ variant = "daemon"
    /\ db = <<>>
    /\ dir_exists = TRUE
    /\ InitThreads

\* one sync_entry, then the functions that read the file
NextCodec ==
    \/ \E h \in CODEC_RECORDS : NoCallYet /\ CallSyncEntry(1, h)
    \/ Open(1) \/ Write(1) \/ TrimRead(1) \/ TrimCreate(1) \/ TrimWrite(1)
    \/ AllIdle /\ CallGetSyncedUuids(1)
    \/ AllIdle /\ CallGetLastSyncedTimestamp(1)

SpecCodec == InitCodec /\ [][NextCodec]_vars

(***************************************************************************)
(* Specification of the reading functions on files of any lines: of earlier*)
(* syncs, of fish itself, damaged ones.                                    *)
(***************************************************************************)
\* largest number of lines in the files that are read
MaxScanLines == 3

\* the lines the files are made of: a command line; timestamp lines of a
\* sync, of fish (a space after the colon) and damaged; metadata lines, one of
\* them with the prefix twice
SCAN_LINES ==
    {MARKER \o <<"a">>,
     WHEN_PREFIX \o <<"7">>,
     WHEN_PREFIX \o <<"-", "1", "2">>,
     WHEN_PREFIX \o <<" ", "7">>,
     WHEN_PREFIX \o <<"x">>,
     UUID_PREFIX \o <<"A">>,
     UUID_PREFIX \o <<"0", "1", "-", "a", "b">>,
     UUID_PREFIX \o UUID_PREFIX \o <<"A">>}

\* lines joined by newlines, the last one ended by a newline or not
JoinLines(ls, final_newline) ==
    LET text == Concat([i \in 1..Len(ls) |-> ls[i] \o <<NL>>])
    IN  IF final_newline \/ text = <<>> THEN text ELSE SubSeq(text, 1, Len(text) - 1)

InitScan ==
    /\ \E n \in 0..MaxScanLines : \E ls \in [1..n -> SCAN_LINES] :
          \E final_newline \in BOOLEAN : content = JoinLines(ls, final_newline)
    /\ exists \in {TRUE, content # <<>>}
    /\ content0 = content
    /\ settings \in [enabled : {TRUE}, max_entries : {0}]
    /\ variant \in {"client", "daemon"}
    /\ db = <<>>
    /\ dir_exists = TRUE
    /\ InitThreads

NextScan ==
    \/ AllIdle /\ CallGetSyncedUuids(1)
    \/ AllIdle /\ CallGetLastSyncedTimestamp(1)

SpecScan == InitScan /\ [][NextScan]_vars

(***************************************************************************)
(* The sync command (`atuin sync`), which runs the primary sync and then   *)
(* the client's fish functions on thread 1.  cmd.pc is where run is;       *)
(* cmd.calls is the number of fish functions it has called and seen return.*)
(***************************************************************************)
\* the lists of identifiers a sync round downloads
DOWNLOADS == {<<>>, <<<<"A">>>>, <<<<"A">>, <<"B">>>>}

\* the record of an identifier, as the primary sync stores it
RecordOf(id) == CHOOSE r \in DB_RECORDS : r.id = id

\* crate::sync::build: the downloaded records the store does not hold yet are
\* added to it, the most recent first
build(downloaded) ==
    LET fresh == SelectSeq(downloaded, LAMBDA id : load(id) = <<>>)
    IN  [i \in 1..Len(fresh) |-> RecordOf(fresh[Len(fresh) + 1 - i])] \o db

\* everything of the fish side
FishUnchanged ==
    UNCHANGED <<exists, content, lock, FISH_INSTALLED, settings, variant, pc, caller,
                history, content_read, new_entries, synced, ncalls, before, appended,
                content0, written, returned, last_return, dir_exists, attempts, faults,
                batch, once, pid_file>>

\* run is called: settings.sync.records and settings.fish_sync.sync_all_on_cli
\* are any
CmdStart(records, sync_all_on_cli) ==
    /\ cmd.pc = "none"
    /\ cmd' = [pc |-> IF records THEN "sync" ELSE "legacy_sync",
               sync_all_on_cli |-> sync_all_on_cli,
               round |-> 0, downloaded |-> <<>>, rounds |-> <<>>, passed |-> <<>>,
               db_synced |-> db, calls |-> ncalls, reported |-> <<>>,
               failed |-> "none", result |-> "none"]
    /\ UNCHANGED db
    /\ FishUnchanged

\* run returns the error of a step with `?`
CmdFail(step) ==
    cmd' = [cmd EXCEPT !.pc = "done", !.result = "err", !.failed = step]

\* a command that gives the error of a fish function back to its caller
FishErrorIsFatal_Propagated == TRUE

\* if let Err(e) = fish_sync::...(..).await { eprintln!(..) }: the error of a
\* fish function is printed and dropped
FishErrorIsFatal == FALSE

\* load_key, sync::sync(settings, &store) and crate::sync::build: a round of
\* the primary sync, which fails or downloads some records into the store;
\* after the first round the history store may need its init
CmdSync ==
    /\ cmd.pc \in {"sync", "sync_again"}
    /\ FishUnchanged
    /\ \/ CmdFail(cmd.pc) /\ UNCHANGED db
       \/ \E downloaded \in DOWNLOADS, init \in BOOLEAN :
             /\ db' = build(downloaded)
             /\ cmd' = [cmd EXCEPT !.pc = IF cmd.pc = "sync" /\ init THEN "init_store"
                                          ELSE "fish_downloaded",
                                   !.round = @ + 1,
                                   !.downloaded = downloaded,
                                   !.rounds = Append(@, downloaded),
                                   !.db_synced = db']

\* history_store.init_store(db), then the second round
CmdInitStore ==
    /\ cmd.pc = "init_store"
    /\ FishUnchanged
    /\ UNCHANGED db
    /\ \/ CmdFail("init_store")
       \/ cmd' = [cmd EXCEPT !.pc = "sync_again"]

\* settings.sync.records is false: atuin_client::sync::sync(settings, force, db)
CmdLegacySync ==
    /\ cmd.pc = "legacy_sync"
    /\ FishUnchanged
    /\ \/ CmdFail("legacy_sync") /\ UNCHANGED db
       \/ \E downloaded \in DOWNLOADS :
             /\ db' = build(downloaded)
             /\ cmd' = [cmd EXCEPT !.pc = "count", !.db_synced = db']

\* if !downloaded.is_empty() && settings.fish_sync.enabled: false
CmdSkipDownloaded ==
    /\ cmd.pc = "fish_downloaded"
    /\ cmd.downloaded = <<>> \/ ~settings.enabled
    /\ cmd' = [cmd EXCEPT !.pc = "fish_all"]
    /\ UNCHANGED db
    /\ FishUnchanged

\* ... true: fish_sync::sync_downloaded_entries(settings, db, &downloaded)
CmdCallSyncDownloaded ==
    /\ cmd.pc = "fish_downloaded"
    /\ cmd.downloaded # <<>> /\ settings.enabled
    /\ cmd.calls = ncalls
    /\ AllIdle
    /\ CallSyncDownloadedEntries(1, cmd.downloaded)

\* What run does once the fish function it called has returned: an error is
\* printed, and run goes on with `next`.
CmdAfterFish(at, next) ==
    /\ cmd.pc = at
    /\ cmd.calls + 1 = ncalls
    /\ AllIdle
    /\ UNCHANGED db
    /\ FishUnchanged
    /\ IF last_return.result = "err" /\ FishErrorIsFatal
       THEN CmdFail(at)
       ELSE cmd' = [cmd EXCEPT !.pc = next, !.calls = ncalls,
                               !.passed = IF at = "fish_downloaded"
                                          THEN Append(@, cmd.downloaded) ELSE @,
                               !.reported = IF last_return.result = "err"
                                            THEN Append(@, last_return.op) ELSE @]

\* if settings.fish_sync.sync_all_on_cli: false
CmdSkipSyncAll ==
    /\ cmd.pc = "fish_all"
    /\ ~cmd.sync_all_on_cli
    /\ cmd' = [cmd EXCEPT !.pc = "count"]
    /\ UNCHANGED db
    /\ FishUnchanged

\* sync_all_entries fails before its loop: get_synced_uuids cannot read the
\* file, or history_db.list fails; the error is returned with `?`
CallReconcileFails(t) ==
    /\ variant = "client"
    /\ LowestIdle(t)
    /\ ncalls < MaxCalls
    /\ Len(faults) < MaxFaults
    /\ settings.enabled
    /\ ncalls' = ncalls + 1
    /\ \E at \in {"get_synced_uuids", "list"} :
          /\ at = "get_synced_uuids" => exists
          /\ faults' = Append(faults,
                              [call |-> ncalls + 1, history |-> NoHistory, at |-> at,
                               injected |-> TRUE, attempt |-> 0,
                               after |-> [exists |-> exists, content |-> content,
                                          dir |-> dir_exists]])
    /\ FISH_INSTALLED' = is_fish_installed("true")
    /\ FISH_INSTALLED' = "true"
    /\ once' = OnceAfterCall(TRUE)
    /\ last_return' = [NoReturn EXCEPT !.op = "reconcile", !.before = FileNow,
                                       !.after = [exists |-> exists, content |-> content,
                                                  dir |-> dir_exists],
                                       !.result = "err"]
    /\ UNCHANGED <<exists, content, lock, settings, variant, db, pc, caller, history,
                   content_read, new_entries, synced, before, appended, content0,
                   written, returned, dir_exists, attempts, batch, cmd, pid_file>>

\* ... true: fish_sync::sync_all_entries(settings, db)
CmdCallSyncAll ==
    /\ cmd.pc = "fish_all"
    /\ cmd.sync_all_on_cli
    /\ cmd.calls = ncalls
    /\ AllIdle
    /\ CallReconcile(1) \/ CallReconcileFails(1)

\* db.history_count(true).await? and the end of run
CmdFinish ==
    /\ cmd.pc = "count"
    /\ UNCHANGED db
    /\ FishUnchanged
    /\ \/ CmdFail("count")
       \/ cmd' = [cmd EXCEPT !.pc = "done", !.result = "ok"]

\* one run of the command; the file, the fish settings and the store are any
InitCommand ==
    /\ \E f \in START_FILES : exists = f.exists /\ content = f.content
    /\ content0 = content
    /\ settings \in [enabled : BOOLEAN, max_entries : 0..MaxBound]
    /\ variant = "client"
    /\ db \in {d \in DBS : Len(d) <= 1}
    /\ dir_exists = TRUE
    /\ InitThreads

NextCommand ==
    \/ \E records, sync_all_on_cli \in BOOLEAN : CmdStart(records, sync_all_on_cli)
    \/ CmdSync
    \/ CmdInitStore
    \/ CmdLegacySync
    \/ CmdSkipDownloaded
    \/ CmdCallSyncDownloaded
    \/ CmdAfterFish("fish_downloaded", "fish_all")
    \/ CmdSkipSyncAll
    \/ CmdCallSyncAll
    \/ CmdAfterFish("fish_all", "count")
    \/ CmdFinish
    \/ SyncEntryStep(1)
    \/ FailIo(1)

SpecCommand == InitCommand /\ [][NextCommand]_vars

(***************************************************************************)
(* Specification of a file that starts absent and is written by            *)
(* concurrent sync_entry calls of one crate, by direct trims and by fish,  *)
(* which appends entries of its own.                                       *)
(***************************************************************************)
MaxNative == 1

LOG_A == [id |-> <<"A">>, command |-> <<"a">>, timestamp |-> 1]

\* filler as long as what an entry of LOG_A has after its marker
PAD == [i \in 1..(Len(format_fish_entry(LOG_A)) - Len(MARKER)) |-> "p"]

\* the records synced: a short one, and one whose command holds the text of a
\* metadata line, as far into its entry as an entry of the other is long
LOG_RECORDS ==
    {LOG_A,
     [id |-> <<"B">>, command |-> PAD \o UUID_PREFIX \o <<"Z">>, timestamp |-> 1]}

\* fish writes an entry of its own at the end of the file
FishAppend ==
    /\ dir_exists
    /\ Len(MatchesFrom(content, MARKER_SP, 1)) < MaxNative
    /\ exists' = TRUE
    /\ content' = content \o FishNativeEntry(<<"c">>, 1)
    /\ UNCHANGED <<lock, FISH_INSTALLED, settings, variant, db, pc, caller, history,
                   content_read, new_entries, synced, ncalls, before, appended,
                   content0, written, returned, last_return, dir_exists, attempts,
                   faults, batch, cmd, once, pid_file>>

InitLog ==
    /\ exists = FALSE
    /\ content = <<>>
    /\ content0 = content
    /\ settings \in [enabled : BOOLEAN, max_entries : 0..MaxBound]
    /\ variant \in {"client", "daemon"}
    /\ db = <<>>
    /\ dir_exists = TRUE
    /\ InitThreads

NextLog ==
    \/ FishAppend
    \/ \E t \in Threads :
          \/ \E h \in LOG_RECORDS : CallSyncEntry(t, h)
          \/ CallTrim(t)
          \/ SyncEntryStep(t)

SpecLog == InitLog /\ [][NextLog]_vars

(***************************************************************************)
(* Definitions the properties share.                                       *)
(***************************************************************************)
\* sync is enabled and fish is installed: sync_entry gets past its guards
Ready == settings.enabled /\ FISH_INSTALLED = "true"

\* the encodings of the records hs, one after the other
ConcatEntries(hs) == Concat([i \in 1..Len(hs) |-> format_fish_entry(hs[i])])

\* how often x occurs in the sequence xs
CountIn(xs, x) == Cardinality({i \in 1..Len(xs) : xs[i] = x})

\* the number of sync_entry calls with record h that have returned
ReturnedCalls(h) ==
    CopiesIn([history |-> h, wrote |-> TRUE], returned)
    + CopiesIn([history |-> h, wrote |-> FALSE], returned)

\* the records of the sync_entry calls that have returned
ReturnedHistories == {r.history : r \in BagToSet(returned)}

\* the entries a file may hold whole: those of the initial files and the
\* encodings of the records
WHOLE_ENTRIES ==
    {format_fish_entry(h) : h \in HISTORIES}
    \cup {FishNativeEntry(<<"c">>, 1),
          format_fish_entry([id |-> <<"A">>, command |-> <<"a">>, timestamp |-> 1])}

RECURSIVE IsWholeEntries(_)
\* s is a sequence of whole entries
IsWholeEntries(s) ==
    \/ s = <<>>
    \/ \E e \in WHOLE_ENTRIES : StartsWith(s, e) /\ IsWholeEntries(SliceFrom(s, Len(e)))

\* s without the preamble it begins with
WithoutPreamble(s) ==
    IF \E p \in PREAMBLES : p # <<>> /\ StartsWith(s, p)
    THEN SliceFrom(s, Len(CHOOSE p \in PREAMBLES : p # <<>> /\ StartsWith(s, p)))
    ELSE s

RECURSIVE EntriesOf(_)
\* the entries that s, a sequence of whole entries, is made of
EntriesOf(s) ==
    IF s = <<>> THEN <<>>
    ELSE LET e == CHOOSE e \in ENTRY_POOL : StartsWith(s, e)
         IN  <<e>> \o EntriesOf(SliceFrom(s, Len(e)))

\* the entries of the initial file
Entries0 == EntriesOf(WithoutPreamble(content0))

\* the first trim_fish_history has returned
FirstTrimReturned == last_return.op = "trim" /\ last_return.before.call = 1

(***************************************************************************)
(* C1.  Concurrent sync_entry calls with records of mutually distinct      *)
(* identifiers (none of them in the file beforehand), with a bound that is *)
(* 0 or not exceeded: once all have returned, the file is what it was      *)
(* followed by exactly one entry per record.                               *)
(***************************************************************************)
C1_DistinctIds ==
    /\ \A r \in BagToSet(returned) : CopiesIn(r, returned) = 1
    /\ \A h1, h2 \in ReturnedHistories : h1.id = h2.id => h1 = h2
    /\ \A h \in ReturnedHistories : h.id \notin get_synced_uuids(TRUE, content0)

\* the file with all the records of the calls in it stays within the bound
C1_BoundNotExceeded ==
    \/ settings.max_entries = 0
    \/ LET n  == Cardinality(ReturnedHistories)
           hs == CHOOSE q \in [1..n -> ReturnedHistories] :
                    \A h \in ReturnedHistories : \E i \in 1..n : q[i] = h
       IN  count_fish_entries(content0 \o ConcatEntries(hs)) <= settings.max_entries

C1_ConcurrentAppendsAllPresent ==
    (AllIdle /\ Ready /\ C1_DistinctIds /\ C1_BoundNotExceeded)
    => /\ content = content0 \o ConcatEntries(written)
       /\ \A h \in ReturnedHistories : CountIn(written, h) = 1

(***************************************************************************)
(* C2.  Under any interleaving of sync_entry calls the file is a sequence  *)
(* of whole entries: each the complete three-line encoding of one record   *)
(* (or an entry the file held at the start).                               *)
(***************************************************************************)
C2_EntriesWholeAndContiguous == IsWholeEntries(content)

(***************************************************************************)
(* C3.  The second of two reconcile calls in succession, the primary store *)
(* being the same, appends no record and leaves the file unchanged.        *)
(***************************************************************************)
C3_SecondReconcileAppendsNothing ==
    (last_return.op = "reconcile" /\ last_return.before.call = 2)
    => /\ last_return.appended = <<>>
       /\ last_return.after.content = last_return.before.content
       /\ last_return.after.exists = last_return.before.exists

(***************************************************************************)
(* C4.  trim_fish_history on a file of more than max_entries entries       *)
(* (max_entries > 0) leaves the last max_entries entries of the file, byte *)
(* for byte and in their order, and nothing else.                          *)
(***************************************************************************)
C4_TrimKeepsLastEntries ==
    (/\ FirstTrimReturned
     /\ last_return.before.exists
     /\ settings.max_entries > 0
     /\ Len(Entries0) > settings.max_entries)
    => last_return.after.content
       = Concat(SubSeq(Entries0, Len(Entries0) - settings.max_entries + 1,
                       Len(Entries0)))

(***************************************************************************)
(* C5.  trim_fish_history on a file of at most max_entries entries writes  *)
(* nothing: at no step does the file differ from the initial one, preamble *)
(* included.                                                               *)
(***************************************************************************)
C5_TrimUnderLimitWritesNothing ==
    (ncalls <= 1 /\ Len(Entries0) <= settings.max_entries) => content = content0

(***************************************************************************)
(* C6.  trim_fish_history is idempotent: a second call with the same       *)
(* max_entries leaves the file as the first call left it.                  *)
(***************************************************************************)
C6_TrimIdempotent ==
    (last_return.op = "trim" /\ last_return.before.call = 2)
    => /\ last_return.after.content = last_return.before.content
       /\ last_return.after.exists = last_return.before.exists

\* the second call has returned, the first having cut the file down
C6_Witness ==
    /\ last_return.op = "trim"
    /\ last_return.before.call = 2
    /\ last_return.before.content # content0
    /\ last_return.before.content # <<>>

C8_ZeroMeansUnbounded ==
    settings.max_entries = 0
    => /\ content = content0 \o ConcatEntries(written)
       /\ (AllIdle /\ Ready) => Len(written) = BagCardinality(returned)

C8_Witness ==
    /\ settings.max_entries = 0
    /\ AllIdle
    /\ content0 # <<>>
    /\ Len(written) >= 2
    /\ BagCardinality(returned) = Len(written)

(***************************************************************************)
(* C9.  A reconcile call never appends a record whose identifier was in a  *)
(* metadata line of the file when the call started.                        *)
(***************************************************************************)
C9_ReconcileSkipsSyncedIds ==
    \A t \in Threads :
        caller[t] = "reconcile"
        => \A i \in 1..Len(appended[t]) :
              appended[t][i].id
                 \notin get_synced_uuids(before[t].exists, before[t].content)

\* a reconcile has appended a record although another record of its window
\* was in the file when it started
C9_Witness ==
    /\ caller[1] = "reconcile"
    /\ appended[1] # <<>>
    /\ \E i \in 1..Len(list(settings.max_entries)) :
          list(settings.max_entries)[i].id
             \in get_synced_uuids(before[1].exists, before[1].content)

(***************************************************************************)
(* C10.  Original statement: sync_entry does not deduplicate by            *)
(* identifier, every call with a record appends an entry for it.           *)
(***************************************************************************)
C10_SyncEntryNeverDeduplicates ==
    (AllIdle /\ Ready) => \A h \in HISTORIES : CountIn(written, h) = ReturnedCalls(h)

(***************************************************************************)
(* C10, amended.  The daemon's sync_entry does not deduplicate: every call *)
(* with a record appends an entry for it, so k calls with the same record  *)
(* append k entries.  (The client's sync_entry does deduplicate.)          *)
(***************************************************************************)
C10_DaemonSyncEntryNeverDeduplicates ==
    (AllIdle /\ Ready /\ variant = "daemon")
    => \A h \in HISTORIES : CountIn(written, h) = ReturnedCalls(h)

\* the daemon has written the same record twice
C10_Witness ==
    /\ AllIdle
    /\ variant = "daemon"
    /\ \E h \in HISTORIES : CountIn(written, h) >= 2 /\ ReturnedCalls(h) >= 2

(***************************************************************************)
(* C12.  sync_all_entries returns the number of records for which the call *)
(* wrote a new entry: a record skipped without being written is not        *)
(* counted.                                                                *)
(***************************************************************************)
C12_CountIsNumberWritten ==
    (last_return.op = "reconcile" /\ variant = "client")
    => last_return.count = Len(last_return.appended)

\* the records of the sync_entry calls a returned call made, in order
AttemptedRecords ==
    [i \in 1..Len(last_return.attempts) |-> last_return.attempts[i].history]

(* C11.  A batch (sync_entries, sync_downloaded_entries, reconcile) is not *)
(* stopped by the failure of one record's append: when it returns it has   *)
(* called sync_entry for every record it set out to sync, in order, and it *)
(* returns success.                                                        *)
C11_BatchGoesOnAfterFailure ==
    last_return.op \in BATCHES
    => /\ last_return.result = "ok"
       /\ AttemptedRecords = last_return.batch

\* a batch returned whose append of one record failed and which wrote a later
\* record
C11_Witness ==
    /\ last_return.op \in BATCHES
    /\ \E i, j \in 1..Len(last_return.attempts) :
          /\ i < j
          /\ last_return.attempts[i].result = "err"
          /\ last_return.attempts[j].result = "ok"
          /\ \E k \in 1..Len(last_return.appended) :
                last_return.appended[k] = last_return.attempts[j].history

(* C13.  With sync disabled no function does anything: sync_entry,         *)
(* sync_entries, sync_downloaded_entries and reconcile return success      *)
(* (reconcile the count 0) and the file and its directory are as they      *)
(* were, neither created nor modified; a batch with no record to sync      *)
(* likewise returns success and creates no file.                           *)
C13_DisabledOrEmptyIsNoOp ==
    /\ ~settings.enabled => (AllIdle /\ content = content0 /\ faults = <<>>)
    /\ (/\ last_return.op # "none"
        /\ ~settings.enabled \/ (last_return.op \in BATCHES /\ last_return.batch = <<>>))
       => /\ last_return.result = "ok"
          /\ last_return.count = 0
          /\ last_return.appended = <<>>
          /\ last_return.after.exists = last_return.before.exists
          /\ last_return.after.content = last_return.before.content
          /\ last_return.after.dir = last_return.before.dir
          /\ exists = last_return.before.exists
          /\ dir_exists = last_return.before.dir

\* a disabled sync_entry has returned and there is neither file nor directory
C13_Witness ==
    /\ ~settings.enabled
    /\ last_return.op = "sync_entry"
    /\ ~exists
    /\ ~dir_exists

(***************************************************************************)
(* The encoding as the specification words it, character by character.     *)
(***************************************************************************)
\* a backslash is doubled, a newline becomes a backslash and an n, any other
\* character stays
EscapedChar(ch) ==
    IF ch = BACKSLASH THEN <<BACKSLASH, BACKSLASH>>
    ELSE IF ch = NL THEN <<BACKSLASH, "n">>
    ELSE <<ch>>

DecimalOf(n) == (CHOOSE ts \in TIMESTAMPS : ts.n = n).s

ThreeLines(h) ==
    <<MARKER \o Concat([i \in 1..Len(h.command) |-> EscapedChar(h.command[i])]),
      WHEN_PREFIX \o DecimalOf(h.timestamp),
      UUID_PREFIX \o h.id>>

(* C14.  The encoding of a record is exactly three lines, each ended by a  *)
(* newline: "- cmd:" and the command in which each backslash is doubled    *)
(* and each newline is a backslash and an n, nothing else changed;         *)
(* "  when:" and the timestamp in decimal; "  # atuin-uuid:" and the       *)
(* identifier.  A sync_entry that appends to an absent or empty file       *)
(* leaves a file that is exactly this.                                     *)
C14_EncodeAndAppendToEmpty ==
    (last_return.op = "sync_entry" /\ FISH_INSTALLED = "true")
    => LET h == last_return.history
           three == ThreeLines(h)
       IN  /\ format_fish_entry(h)
              = three[1] \o <<NL>> \o three[2] \o <<NL>> \o three[3] \o <<NL>>
           /\ Lines(format_fish_entry(h)) = three
           /\ last_return.before.content = <<>>
              => /\ last_return.after.exists
                 /\ last_return.after.content = format_fish_entry(h)

\* besides, the encoding alone, for every record
C14_EncodingIsThreeLines ==
    (last_return.op = "sync_entry" /\ FISH_INSTALLED = "true")
    => LET h == last_return.history
           three == ThreeLines(h)
       IN  /\ format_fish_entry(h)
              = three[1] \o <<NL>> \o three[2] \o <<NL>> \o three[3] \o <<NL>>
           /\ Lines(format_fish_entry(h)) = three

\* besides, the file after the append, for the commands without "- cmd:"
C14_AppendToEmptyWithoutMarker ==
    (/\ last_return.op = "sync_entry" /\ FISH_INSTALLED = "true"
     /\ last_return.before.content = <<>>
     /\ count_fish_entries(format_fish_entry(last_return.history)) = 1)
    => /\ last_return.after.exists
       /\ last_return.after.content = format_fish_entry(last_return.history)

(* C15.  Round trip.  Once sync_entry has appended a record to a file,     *)
(* get_last_synced_timestamp returns the record's timestamp, negative ones *)
(* too; and get_synced_uuids of the record's encoding is the set of the    *)
(* record's identifier alone.                                              *)
C15_RoundTrip ==
    /\ (last_return.op = "get_last_synced_timestamp" /\ written # <<>>)
       => last_return.value = <<written[Len(written)].timestamp>>
    /\ (last_return.op = "get_synced_uuids" /\ written # <<>> /\ content0 = <<>>)
       => last_return.value = {written[1].id}
    /\ (last_return.op = "sync_entry" /\ FISH_INSTALLED = "true")
       => /\ get_synced_uuids(TRUE, format_fish_entry(last_return.history))
             = {last_return.history.id}
          /\ get_last_synced_timestamp(TRUE, format_fish_entry(last_return.history))
             = <<last_return.history.timestamp>>

\* a record with a negative timestamp was appended after entries with another
\* timestamp, and the timestamp was read back
C15_Witness ==
    /\ last_return.op = "get_last_synced_timestamp"
    /\ written # <<>>
    /\ written[1].timestamp < 0
    /\ content0 # <<>>
    /\ last_return.value = <<written[1].timestamp>>

(***************************************************************************)
(* The file as lines, and what the specification reads from them.          *)
(***************************************************************************)
\* the pieces of a text between its newlines (none after a final newline)
Pieces(text) ==
    LET parts == Split(text, <<NL>>)
    IN  IF parts[Len(parts)] = <<>> THEN SubSeq(parts, 1, Len(parts) - 1) ELSE parts

\* what follows the prefix on a line that begins with it
AfterPrefix(line, prefix) == SubSeq(line, Len(prefix) + 1, Len(line))

\* the identifiers that follow the metadata prefix on the lines of a file
IdsAfterPrefix(file) ==
    IF ~file.exists THEN {}
    ELSE {AfterPrefix(Pieces(file.content)[i], UUID_PREFIX) :
             i \in {j \in 1..Len(Pieces(file.content)) :
                       StartsWith(Pieces(file.content)[j], UUID_PREFIX)}}

(* C16.  get_synced_uuids returns exactly the set of the identifiers that  *)
(* follow the metadata prefix on the lines of the file: the empty set for  *)
(* an absent or empty file, nothing for entries without a metadata line,   *)
(* one element for an identifier that occurs more than once.               *)
C16_ScanReturnsIdsAfterPrefix ==
    last_return.op = "get_synced_uuids"
    => last_return.value = IdsAfterPrefix(last_return.before)

\* the same, for files none of whose metadata lines repeats the prefix
C16_ScanOfOrdinaryFiles ==
    (/\ last_return.op = "get_synced_uuids"
     /\ \A id \in IdsAfterPrefix(last_return.before) : ~StartsWith(id, UUID_PREFIX))
    => last_return.value = IdsAfterPrefix(last_return.before)

\* the lines of a file that begin with the timestamp prefix and go on with a
\* well-formed timestamp
WellFormedTimestampLines(file) ==
    IF ~file.exists THEN {}
    ELSE {i \in 1..Len(Pieces(file.content)) :
             /\ StartsWith(Pieces(file.content)[i], WHEN_PREFIX)
             /\ \E ts \in TIMESTAMPS :
                   ts.s = AfterPrefix(Pieces(file.content)[i], WHEN_PREFIX)}

\* the timestamp of the last of them, if any
LastWellFormedTimestamp(file) ==
    LET good == WellFormedTimestampLines(file)
    IN  IF good = {} THEN <<>>
        ELSE LET last == CHOOSE i \in good : \A j \in good : j <= i
             IN  <<(CHOOSE ts \in TIMESTAMPS :
                       ts.s = AfterPrefix(Pieces(file.content)[last], WHEN_PREFIX)).n>>

(* C18.  get_last_synced_timestamp returns the timestamp of the last entry *)
(* of the file that has a well-formed timestamp line, passing over later   *)
(* entries whose timestamp line is missing or malformed, and returns       *)
(* nothing only if the file is absent, empty or without such an entry.     *)
C18_LastWellFormedTimestamp ==
    last_return.op = "get_last_synced_timestamp"
    => last_return.value = LastWellFormedTimestamp(last_return.before)

\* besides, the same for files whose last timestamp line is well-formed
\* or that have no timestamp line
C18_WhenLastLineIsWellFormed ==
    (/\ last_return.op = "get_last_synced_timestamp"
     /\ LET lines == Pieces(last_return.before.content)
            found == {i \in 1..Len(lines) : StartsWith(lines[i], WHEN_PREFIX)}
        IN  \A i \in found : i \in WellFormedTimestampLines(last_return.before)
                             \/ \E j \in found : j > i)
    => last_return.value = LastWellFormedTimestamp(last_return.before)

\* the last n entries of the file the trim run began with (all, if fewer)
LastEntries0(n) ==
    IF Len(Entries0) <= n THEN Entries0
    ELSE SubSeq(Entries0, Len(Entries0) - n + 1, Len(Entries0))

(* C17.  After trim_fish_history(path, N), N > 0, get_synced_uuids gives   *)
(* exactly the identifiers carried by the last N entries of the original   *)
(* file, and always a subset of what it gave before the trim.              *)
C17_TrimKeepsIdsOfLastEntries ==
    (FirstTrimReturned /\ last_return.before.exists /\ settings.max_entries > 0)
    => /\ get_synced_uuids(last_return.after.exists, last_return.after.content)
          = IdsAfterPrefix([exists |-> TRUE,
                            content |-> Concat(LastEntries0(settings.max_entries))])
       /\ get_synced_uuids(last_return.after.exists, last_return.after.content)
          \subseteq get_synced_uuids(last_return.before.exists,
                                     last_return.before.content)

\* besides, the part of C17 that does not depend on where entries begin
C17_IdsOnlyShrink ==
    FirstTrimReturned
    => get_synced_uuids(last_return.after.exists, last_return.after.content)
       \subseteq get_synced_uuids(last_return.before.exists, last_return.before.content)

\* the call that returned was an enabled sync_entry, with fish, on a path at
\* which there was no file, and no step of it was made to fail
AppendedToAbsentFile ==
    /\ last_return.op = "sync_entry"
    /\ settings.enabled
    /\ FISH_INSTALLED = "true"
    /\ ~last_return.before.exists
    /\ faults = <<>>

(* C19.  An enabled sync_entry on a path whose file, or whose file and     *)
(* parent directory, do not exist creates the directory and the file, and  *)
(* the file then contains the appended entry.                              *)
C19_AppendCreatesDirAndFile ==
    AppendedToAbsentFile
    => /\ last_return.result = "ok"
       /\ dir_exists
       /\ exists
       /\ Occurrences(content, format_fish_entry(last_return.history)) # {}

\* besides, the same, for the commands without "- cmd:"
C19_WhenCommandHasNoMarker ==
    (AppendedToAbsentFile
     /\ count_fish_entries(format_fish_entry(last_return.history)) = 1)
    => /\ last_return.result = "ok"
       /\ dir_exists
       /\ exists
       /\ content = format_fish_entry(last_return.history)

\* besides, directory and file are created whatever the command
C19_DirAndFileCreated ==
    AppendedToAbsentFile
    => last_return.result = "ok" /\ dir_exists /\ exists /\ content # <<>>

(* C20.  sync_entry never hides an I/O failure.  If creating the parent    *)
(* directory, opening, locking, writing, flushing or trimming fails, the   *)
(* call returns the error and does none of the later steps: the file is    *)
(* as the failed step left it.  It returns an error only then.             *)
C20_SyncEntryReturnsIoError ==
    last_return.op = "sync_entry"
    => /\ faults # <<>>
          => /\ last_return.result = "err"
             /\ Len(faults) = 1
             /\ last_return.after = faults[1].after
             /\ exists = faults[1].after.exists
             /\ content = faults[1].after.content
             /\ lock = NONE
       /\ last_return.result = "err" => faults # <<>>

\* the write of a sync_entry failed half-way, and the call returned
C20_Witness ==
    /\ last_return.op = "sync_entry"
    /\ last_return.result = "err"
    /\ faults # <<>>
    /\ faults[1].at = "write"
    /\ faults[1].after.content # last_return.before.content

\* the steps of run that belong to the primary sync
PRIMARY_STEPS == {"sync", "sync_again", "init_store", "legacy_sync", "count"}

\* a step of the fish function that thread 1 runs can be taken
FishCanStep ==
    /\ pc[1] # "idle"
    /\ pc[1] = "lock" => lock = NONE
    /\ pc[1] = "open" => dir_exists

\* the command, if it has begun and not returned, can take a step: of its
\* own, or of the fish function it has called
CmdCanStep ==
    \/ cmd.pc \in PRIMARY_STEPS
    \/ /\ cmd.pc = "fish_downloaded"
       /\ \/ cmd.downloaded = <<>> \/ ~settings.enabled
          \/ cmd.calls = ncalls /\ AllIdle /\ ncalls < MaxCalls
          \/ FishCanStep
          \/ cmd.calls + 1 = ncalls /\ AllIdle
    \/ /\ cmd.pc = "fish_all"
       /\ \/ ~cmd.sync_all_on_cli
          \/ cmd.calls = ncalls /\ AllIdle /\ ncalls < MaxCalls
          \/ FishCanStep
          \/ cmd.calls + 1 = ncalls /\ AllIdle

(* C21.  A failure on the fish side never fails the sync command.  An      *)
(* error that sync_downloaded_entries or sync_all_entries returns is       *)
(* printed and dropped; the command is never stuck, goes on to its end and *)
(* returns success unless a step of the primary sync itself failed; what   *)
(* the primary sync stored stays stored.                                   *)
C21_FishFailureNeverFailsSync ==
    /\ cmd.pc \in {"fish_downloaded", "fish_all", "count", "done"}
       => db = cmd.db_synced
    /\ cmd.pc = "done"
       => /\ cmd.result = "err" <=> cmd.failed \in PRIMARY_STEPS
          /\ cmd.result = "ok" <=> cmd.failed = "none"
    /\ (last_return.op \in BATCHES /\ last_return.result = "err"
        /\ cmd.pc \in {"count", "done"})
       => cmd.reported # <<>>
    /\ cmd.pc \notin {"none", "done"} => CmdCanStep

\* the command returned success although sync_all_entries returned an error
\* and a sync_entry of sync_downloaded_entries had failed before
C21_Witness ==
    /\ cmd.pc = "done"
    /\ cmd.result = "ok"
    /\ cmd.reported = <<"reconcile">>
    /\ Len(faults) = 2
    /\ cmd.db_synced # <<>>

\* thread t is inside sync_entry with its file open and the entry not yet
\* written and flushed
AboutToWrite(t) == pc[t] = "write" /\ caller[t] # "trim"

(* C22.  Every sync_entry, of the client and of the daemon, holds the        *)
(* exclusive lock of the file when it writes its entry, so no two calls are  *)
(* at their write at the same time.                                          *)
C22_WriterHoldsLock ==
    /\ \A t \in Threads : AboutToWrite(t) => lock = t
    /\ \A t, u \in Threads : AboutToWrite(t) /\ AboutToWrite(u) => t = u

\* besides, the client alone: its writer holds the lock
C22_ClientWriterHoldsLock ==
    variant = "client" => C22_WriterHoldsLock

\* two calls of the client are past open, one of them at its write
C22_ClientWitness ==
    /\ variant = "client"
    /\ \E t, u \in Threads : AboutToWrite(t) /\ lock = t /\ pc[u] = "lock"

\* the steps of sync_entry from its write on: the entry is written and
\* flushed, then the file is trimmed
FROM_WRITE == {"write", "trim", "trim_create", "trim_write"}

\* the steps of sync_entry before it has taken the lock
BEFORE_LOCK == {"idle", "mkdir", "check_uuid", "check_cmd", "open", "lock"}

TriedByReconcile ==
    {last_return.attempts[i].history : i \in 1..Len(last_return.attempts)}

\* the identifiers the file held when the reconcile that has returned began
SyncedAtStart ==
    get_synced_uuids(last_return.before.exists, last_return.before.content)

\* a reconcile that found fish sync enabled and fish installed has returned
ReconcileRan ==
    /\ last_return.op = "reconcile"
    /\ settings.enabled
    /\ FISH_INSTALLED = "true"

C24_WitnessUnbounded ==
    /\ ReconcileRan
    /\ settings.max_entries = 0
    /\ TriedByReconcile = {db[i] : i \in 1..Len(db)}
    /\ Len(db) = 2

\* the identifiers of the records written so far
WrittenIds == {written[i].id : i \in 1..Len(written)}

(* C25.  In a file that starts absent and is written only by sync_entry,   *)
(* by trims and by fish (whose entries have no metadata line), the          *)
(* identifiers the scan finds are identifiers of records written so far,    *)
(* and the entry of every record written has a metadata line with the       *)
(* identifier of the record.                                                *)
C25_SyncedIdsWereAppended ==
    /\ get_synced_uuids(exists, content) \subseteq WrittenIds
    /\ \A i \in 1..Len(written) :
          written[i].id \in get_synced_uuids(TRUE, format_fish_entry(written[i]))

\* besides, the client, whose calls trim under the lock
C25_ClientSyncedIdsWereAppended ==
    variant = "client" => C25_SyncedIdsWereAppended

\* besides: the client has written both records, fish one entry, and a trim
\* has cut the file
C25_ClientWitness ==
    /\ variant = "client"
    /\ WrittenIds = {<<"A">>, <<"B">>}
    /\ AllIdle
    /\ settings.max_entries = 1
    /\ get_synced_uuids(exists, content) # {}
    /\ count_fish_entries(content) = 1

(* C26.  With threads that keep running, every one of finitely many         *)
(* concurrent sync_entry calls of the client returns: a call that waits for  *)
(* the lock gets it in the end, and then writes and returns.  No call waits  *)
(* for ever.                                                                 *)
C26_AppendsTerminate ==
    \A t \in Threads :
        /\ (pc[t] # "idle") ~> (pc[t] = "idle")
        /\ (pc[t] = "lock") ~> (lock = t)

\* a call waits for the lock that another call holds
C26_Witness ==
    \E t, u \in Threads : pc[t] = "lock" /\ lock = u /\ u # t

\* the sync_entry call that returned last returned Ok(()) and had written
\* its entry
AppendSucceeded ==
    /\ last_return.op = "sync_entry"
    /\ last_return.result = "ok"
    /\ last_return.appended = <<last_return.history>>

\* the trim at the end of that call found nothing to do: no bound, or no more
\* entries than the bound
NoTrimTriggered ==
    TrimReturnsEarly(TRUE,
                     last_return.before.content
                         \o format_fish_entry(last_return.history),
                     settings.max_entries)

(* C27.  A sync_entry that wrote its entry and returned Ok(()), and whose   *)
(* trim found nothing to do, has changed the file only at its end: the       *)
(* content before the call is a prefix of the content after it, and the      *)
(* content after it is the content before followed by the encoding of the    *)
(* record.                                                                   *)
C27_AppendOnlyAddsAtEnd ==
    (AppendSucceeded /\ NoTrimTriggered) =>
        /\ StartsWith(last_return.after.content, last_return.before.content)
        /\ last_return.after.content =
               last_return.before.content \o format_fish_entry(last_return.history)
        /\ last_return.after.exists

\* an entry was added to a file that held entries
C27_Witness ==
    /\ AppendSucceeded
    /\ NoTrimTriggered
    /\ last_return.before.content # <<>>
    /\ content = last_return.after.content

\* thread t, inside the trim of its sync_entry, has read the file and not yet
\* written it back
InsideTrim(t) == caller[t] = "sync_entry" /\ pc[t] \in {"trim_create", "trim_write"}

C28_DaemonLosesEntry ==
    /\ variant = "daemon"
    /\ AllIdle
    /\ Len(written) = 2
    /\ written[2].id \notin get_synced_uuids(exists, content)

\* the identifiers of the metadata lines of a file, in file order
SyncedIdSeq(text) ==
    LET marked == SelectSeq(Lines(text), LAMBDA line : StartsWith(line, UUID_PREFIX))
    IN  [i \in 1..Len(marked) |-> TrimStartMatches(marked[i], UUID_PREFIX)]

\* s holds elements of t only, each once, in the order they have in t
InOrderOf(s, t) ==
    \E f \in [1..Len(s) -> 1..Len(t)] :
        /\ \A i \in 1..Len(s) : s[i] = t[f[i]]
        /\ \A i, j \in 1..Len(s) : i < j => f[i] < f[j]

\* the records of the window reconcile fetched whose identifier the file did
\* not hold when the call began, in the order of the primary store
FetchedNew ==
    LET bound == settings.max_entries
        n == IF bound = 0 \/ bound > Len(db) THEN Len(db) ELSE bound
    IN  SelectSeq(SubSeq(db, 1, n), LAMBDA r : r.id \notin SyncedAtStart)

(* C29.  Reconcile calls sync_entry exactly once, failed or not, for each   *)
(* fetched record whose identifier the file did not hold when the call       *)
(* began, in the order the primary store returned the records.  The entries  *)
(* it wrote are in that order, and so are those of them the file holds at    *)
(* the end.                                                                  *)
C29_OneAttemptEachInOrder ==
    ReconcileRan =>
        /\ AttemptedRecords = FetchedNew
        /\ last_return.appended
              = SelectSeq(FetchedNew,
                          LAMBDA r : \E i \in 1..Len(last_return.appended) :
                                        last_return.appended[i] = r)
        /\ InOrderOf(SelectSeq(SyncedIdSeq(last_return.after.content),
                               LAMBDA id : id \notin SyncedAtStart),
                     [i \in 1..Len(last_return.appended) |-> last_return.appended[i].id])

\* two new records: the sync_entry of the first failed, it was not tried
\* again, and the second was written
C29_Witness ==
    /\ ReconcileRan
    /\ Len(last_return.attempts) = 2
    /\ last_return.attempts[1].result = "err"
    /\ last_return.attempts[2].result = "ok"
    /\ last_return.appended = <<last_return.attempts[2].history>>

\* besides: two new records were written and are in the file in the order of
\* the store
C29_WitnessBothWritten ==
    /\ ReconcileRan
    /\ Len(last_return.appended) = 2
    /\ SelectSeq(SyncedIdSeq(last_return.after.content),
                 LAMBDA id : id \notin SyncedAtStart) = <<db[1].id, db[2].id>>

\* the file the sync_entry call that returned last found holds a metadata
\* line with the identifier of the call's record
IdWasInFile ==
    /\ last_return.before.exists
    /\ \E i \in 1..Len(Lines(last_return.before.content)) :
          Lines(last_return.before.content)[i] = UUID_PREFIX \o last_return.history.id

(* C30.  The client's sync_entry skips a record whose identifier is in a    *)
(* metadata line of the file: the call returns Ok(()), writes nothing, and   *)
(* the file is as it was.                                                    *)
C30_ClientSkipsSyncedId ==
    (variant = "client" /\ last_return.op = "sync_entry" /\ IdWasInFile)
    => /\ last_return.result = "ok"
       /\ last_return.appended = <<>>
       /\ last_return.after.exists
       /\ last_return.after.content = last_return.before.content

\* a second call with a record that the first call wrote: the record is in
\* the file once
C30_Witness ==
    /\ variant = "client"
    /\ last_return.op = "sync_entry"
    /\ IdWasInFile
    /\ Ready
    /\ last_return.before.call = 2
    /\ written = <<last_return.history>>

(***************************************************************************)
(* Specification of the client's command-and-timestamp check: the file     *)
(* holds one entry the shell wrote itself, in either form of the marker,   *)
(* for a command of a few characters, and client sync_entry is called once.*)
(***************************************************************************)
\* largest length of the commands the shell wrote
MaxShellCmdLen == 2

\* the characters of those commands: the two that the file format escapes, a
\* blank and a letter
SHELL_CMD_CHARS == {BACKSLASH, NL, " ", "a"}

SHELL_COMMANDS == UNION {[1..n -> SHELL_CMD_CHARS] : n \in 1..MaxShellCmdLen}

\* the timestamps of those entries
SHELL_TIMESTAMPS == {7, 105}

\* the entry of the shell for a command: the marker in one of its two forms,
\* the escaped command text, the timestamp line, no metadata line
ShellEntry(form, command, timestamp) ==
    form \o escaped_cmd(command) \o <<NL>> \o WHEN_PREFIX \o <<" ">>
    \o I64ToString(timestamp) \o <<NL>>

SHELL_RECORDS == [id : {<<"A">>}, command : SHELL_COMMANDS, timestamp : SHELL_TIMESTAMPS]

InitShell ==
    /\ exists = TRUE
    /\ \E form \in {MARKER, MARKER_SP}, command \in SHELL_COMMANDS,
          timestamp \in SHELL_TIMESTAMPS :
          content = ShellEntry(form, command, timestamp)
    /\ content0 = content
    /\ settings \in [enabled : {TRUE}, max_entries : 0..MaxBound]
    /\ variant = "client"
    /\ db = <<>>
    /\ dir_exists = TRUE
    /\ InitThreads

NextShell ==
    \/ \E h \in SHELL_RECORDS : NoCallYet /\ CallSyncEntry(1, h)
    \/ SyncEntryStep(1)

SpecShell == InitShell /\ [][NextShell]_vars

\* the file the call found holds the shell's own entry for the record
ShellWroteIt ==
    /\ last_return.before.exists
    /\ \E form \in {MARKER, MARKER_SP} :
          last_return.before.content
              = ShellEntry(form, last_return.history.command,
                           last_return.history.timestamp)

\* the call wrote nothing
NothingAppended ==
    /\ last_return.result = "ok"
    /\ last_return.appended = <<>>
    /\ last_return.after.content = last_return.before.content

\* C31: client sync_entry appends nothing when the file already holds the
\* shell's own entry (no metadata line) for the same command and timestamp,
\* in either form of the marker, whatever the command text is.
C31_SkipsShellEntry ==
    (variant = "client" /\ last_return.op = "sync_entry" /\ Ready /\ ShellWroteIt)
    => NothingAppended

\* text without backslash and newline, and without blanks at its ends
PlainText(s) ==
    /\ s # <<>>
    /\ \A i \in 1..Len(s) : s[i] \notin {BACKSLASH, NL}
    /\ TrimWs(s) = s

\* besides, the check does hold for the commands that are written to the
\* file as they are
C31_SkipsShellEntryOfPlainText ==
    (variant = "client" /\ last_return.op = "sync_entry" /\ Ready /\ ShellWroteIt
     /\ PlainText(last_return.history.command))
    => NothingAppended

\* a call for a plain command found the shell's entry and wrote nothing
C31_WitnessPlainText ==
    /\ variant = "client" /\ last_return.op = "sync_entry" /\ Ready /\ ShellWroteIt
    /\ PlainText(last_return.history.command)
    /\ NothingAppended

\* a call for a command with a backslash found the shell's entry
C31_WitnessBackslash ==
    /\ variant = "client" /\ last_return.op = "sync_entry" /\ Ready /\ ShellWroteIt
    /\ last_return.history.command = <<BACKSLASH>>

(***************************************************************************)
(* Specification of is_fish_installed: the threads of one process call it, *)
(* from sync_entry or from the reconciling function, in any interleaving.  *)
(* OnceLock::get_or_init lets the first caller run the initializer and     *)
(* parks the callers that arrive while it runs.                            *)
(***************************************************************************)
\* the number of calls of is_fish_installed
MaxOnceCalls == 3

\* the OnceLock lets a caller run the initializer ...
OnceIncomplete_Racy == FISH_INSTALLED \in {"uninit", "running"}

\* ... only when it is empty and no other caller is running it
OnceIncomplete == FISH_INSTALLED = "uninit"

OnceUnchanged ==
    UNCHANGED <<exists, content, lock, settings, variant, db, history, content_read,
                new_entries, synced, before, appended, content0, written, returned,
                last_return, dir_exists, attempts, faults, batch, cmd, pid_file>>

\* a thread calls is_fish_installed(), from one of the functions that do
CallIsFishInstalled(t) ==
    /\ pc[t] = "idle"
    /\ ncalls < MaxOnceCalls
    /\ ncalls' = ncalls + 1
    /\ pc' = [pc EXCEPT ![t] = "get_or_init"]
    /\ \E from \in {"sync_entry", "reconcile"} : caller' = [caller EXCEPT ![t] = from]
    /\ UNCHANGED <<FISH_INSTALLED, once, pid_file>>
    /\ OnceUnchanged

\* the call returns `value`
OnceReturn(t, value) ==
    /\ pc' = [pc EXCEPT ![t] = "idle"]
    /\ caller' = [caller EXCEPT ![t] = "none"]
    /\ once' = [once EXCEPT !.seen = @ \cup {value}]

\* FISH_INSTALLED.get_or_init(..): an empty OnceLock makes the caller the one
\* that runs the initializer, a running initializer parks the caller, a full
\* OnceLock gives its value
GetOrInit(t) ==
    /\ pc[t] = "get_or_init"
    /\ ncalls' = ncalls
    /\ OnceUnchanged
    /\ IF OnceIncomplete
       THEN /\ FISH_INSTALLED' = "running"
            /\ pc' = [pc EXCEPT ![t] = "probe"]
            /\ UNCHANGED <<caller, once, pid_file>>
       ELSE IF FISH_INSTALLED = "running"
       THEN /\ pc' = [pc EXCEPT ![t] = "wait"]
            /\ UNCHANGED <<FISH_INSTALLED, caller, once, pid_file>>
       ELSE /\ OnceReturn(t, FISH_INSTALLED)
            /\ UNCHANGED FISH_INSTALLED

\* the initializer: Command::new("fish").arg("--version").output(), whose
\* outcome fills the OnceLock
RunProbe(t) ==
    /\ pc[t] = "probe"
    /\ ncalls' = ncalls
    /\ OnceUnchanged
    /\ \E probe \in {"true", "false"} :
          /\ FISH_INSTALLED' = probe
          /\ pc' = [pc EXCEPT ![t] = "idle"]
          /\ caller' = [caller EXCEPT ![t] = "none"]
          /\ once' = [probes |-> once.probes + 1, seen |-> once.seen \cup {probe}]

\* a parked caller goes on when the OnceLock is full
WakeUp(t) ==
    /\ pc[t] = "wait"
    /\ FISH_INSTALLED \in {"true", "false"}
    /\ ncalls' = ncalls
    /\ OnceUnchanged
    /\ OnceReturn(t, FISH_INSTALLED)
    /\ UNCHANGED FISH_INSTALLED

InitOnce ==
    /\ exists \in BOOLEAN
    /\ content = <<>>
    /\ content0 = content
    /\ settings \in [enabled : {TRUE}, max_entries : 0..MaxBound]
    /\ variant \in {"client", "daemon"}
    /\ db = <<>>
    /\ dir_exists = TRUE
    /\ InitThreads

NextOnce ==
    \E t \in Threads :
        \/ CallIsFishInstalled(t)
        \/ GetOrInit(t)
        \/ RunProbe(t)
        \/ WakeUp(t)

SpecOnce == InitOnce /\ [][NextOnce]_vars

\* C32: is_fish_installed runs its command at most once in a process, however
\* many calls are made and however the first calls interleave; no call
\* returns before that one check is done, and every call returns the value
\* it left in the cache.
C32_ProbeRunsOnce ==
    /\ once.probes <= 1
    /\ Cardinality({t \in Threads : pc[t] = "probe"}) <= 1
    /\ once.probes = 0 <=> FISH_INSTALLED \in {"uninit", "running"}
    /\ once.probes = 0 => once.seen = {}
    /\ once.seen \subseteq {FISH_INSTALLED}
    /\ \A t \in Threads : pc[t] = "probe" => FISH_INSTALLED = "running"

\* the check is done, one caller has its value, and a caller that arrived
\* while the check ran is still parked
C32_Witness ==
    /\ once.probes = 1
    /\ once.seen = {FISH_INSTALLED}
    /\ \E t \in Threads : pc[t] = "wait"

\* all the calls were made and have returned
C32_WitnessAllReturned ==
    /\ ncalls = MaxOnceCalls
    /\ AllIdle
    /\ once.probes = 1

\* the identifiers of the metadata lines of a file, line by line (the empty
\* sequence for a line that is no metadata line)
MetadataIdOfLine(line) ==
    IF StartsWith(line, UUID_PREFIX) THEN <<TrimStartMatches(line, UUID_PREFIX)>>
    ELSE <<>>

\* some identifier is on two metadata lines
HasDuplicateId(c) ==
    LET lines == Lines(c)
    IN  \E i, j \in 1..Len(lines) :
           /\ i < j
           /\ MetadataIdOfLine(lines[i]) # <<>>
           /\ MetadataIdOfLine(lines[i]) = MetadataIdOfLine(lines[j])

\* C33: in the client, whatever the interleaving of concurrent sync_entry
\* calls (several for the same record included) on a file without duplicates,
\* no identifier is on more than one metadata line of the file.
C33_NoIdentifierTwice ==
    (variant = "client" /\ ~HasDuplicateId(content0)) => ~HasDuplicateId(content)

\* a reconcile call has returned in which every sync_entry returned Ok
ReconcileAllOk ==
    /\ ReconcileRan
    /\ \A i \in 1..Len(last_return.attempts) : last_return.attempts[i].result = "ok"

\* the identifiers the scan finds in the file the call left
SyncedAtEnd == get_synced_uuids(last_return.after.exists, last_return.after.content)

\* C34: after a reconcile call in which every append succeeded, with no other
\* writer, every record of the window fetched from the store has its
\* identifier in the scan of the resulting file, whatever the file held
\* before.
C34_WindowIsSynced ==
    ReconcileAllOk
    => \A i \in 1..Len(list(Limit)) : list(Limit)[i].id \in SyncedAtEnd

\* besides, the records this call wrote are all found by the scan
C34_WrittenAreSynced ==
    ReconcileAllOk
    => \A i \in 1..Len(last_return.appended) : last_return.appended[i].id \in SyncedAtEnd

\* besides, without a retention bound the daemon's call leaves the whole
\* window synced
C34_DaemonUnboundedWindowIsSynced ==
    (ReconcileAllOk /\ variant = "daemon" /\ settings.max_entries = 0)
    => \A i \in 1..Len(list(Limit)) : list(Limit)[i].id \in SyncedAtEnd

\* a call wrote two records and a trim cut the file
C34_WitnessWritten ==
    /\ ReconcileAllOk
    /\ Len(last_return.appended) = 2
    /\ settings.max_entries = 2
    /\ last_return.before.exists
    /\ last_return.before.content # <<>>

\* the three lines of the entry of a record
EntryLines(h) == Lines(format_fish_entry(h))

\* line i of `lines` is a metadata line that ends the whole entry of a record
EndsWholeEntry(lines, i) ==
    \E h \in HISTORIES :
       /\ i >= 3
       /\ SubSeq(lines, i - 2, i) = EntryLines(h)

\* C35: trim never splits an entry this system wrote: every record written,
\* whatever its command text (the text "- cmd:" included), counts as one
\* entry toward the bound, and after any appends and trims every metadata
\* line in the file still follows the command line and the timestamp line of
\* its record (the three lines are all there or all gone).
C35_TrimNeverSplitsEntry ==
    /\ \A i \in 1..Len(written) : count_fish_entries(format_fish_entry(written[i])) = 1
    /\ LET lines == Lines(content)
       IN  \A i \in 1..Len(lines) :
              StartsWith(lines[i], UUID_PREFIX) => EndsWholeEntry(lines, i)

\* the command text of a record holds the entry marker
HasMarker(h) == Occurrences(h.command, MARKER) # {}

\* besides, the same holds as long as no record written has the marker in its
\* command text
C35_TrimNeverSplitsMarkerFreeEntry ==
    (\A i \in 1..Len(written) : ~HasMarker(written[i])) => C35_TrimNeverSplitsEntry

\* two marker-free records were written and a trim has removed an entry
C35_WitnessMarkerFree ==
    /\ Len(written) = 2
    /\ \A i \in 1..Len(written) : ~HasMarker(written[i])
    /\ settings.max_entries = 1
    /\ AllIdle
    /\ count_fish_entries(content) = 1

\* the call has just written the entry of its record
JustWritten == pc[1] = "trim" /\ caller[1] = "sync_entry" /\ written # <<>>

\* the command line of the entry just written: the third line from the end
WrittenCommandLine ==
    LET lines == Lines(content)
    IN  lines[Len(lines) - 2]

\* C36: the escaping of the command is injective and keeps it on one line:
\* the command line written for a command is the command line of no other
\* command (a newline and a backslash followed by 'n' are written
\* differently), the escaped command holds no line break, and the entry adds
\* three lines to the file whatever the command is.
C36_EscapingInjectiveAndLineSafe ==
    JustWritten =>
        LET h == written[Len(written)]
            line == WrittenCommandLine
        IN  /\ \A i \in 1..Len(escaped_cmd(h.command)) : escaped_cmd(h.command)[i] # NL
            /\ Len(Lines(content)) = Len(Lines(before[1].content)) + 3
            /\ line = MARKER \o escaped_cmd(h.command)
            /\ \A command \in CODEC_COMMANDS :
                  line = MARKER \o escaped_cmd(command) => command = h.command

\* a backslash followed by 'n' was written, as two backslashes and 'n'
C36_Witness ==
    /\ JustWritten
    /\ written[Len(written)].command = <<BACKSLASH, "n">>
    /\ WrittenCommandLine = MARKER \o <<BACKSLASH, BACKSLASH, "n">>
    /\ escaped_cmd(<<NL>>) = <<BACKSLASH, "n">>

\* the identifiers of a sequence of lists of identifiers
IdsOf(lists) == UNION {{lists[i][j] : j \in 1..Len(lists[i])} : i \in 1..Len(lists)}

\* run is past the place where it hands the downloaded identifiers to fish
PastFishDownloaded ==
    \/ cmd.pc \in {"fish_all", "count"}
    \/ cmd.pc = "done" /\ cmd.result = "ok"

\* C37: with fish sync enabled, every identifier downloaded by any sync round
\* of one run of the sync command is passed to sync_downloaded_entries, those
\* of the first round included when a second round follows the history store
\* init.
C37_AllDownloadedArePassed ==
    (PastFishDownloaded /\ settings.enabled) => IdsOf(cmd.rounds) \subseteq IdsOf(cmd.passed)

\* besides, the identifiers of the last round are always passed
C37_LastRoundIsPassed ==
    (PastFishDownloaded /\ settings.enabled /\ cmd.rounds # <<>>)
    => IdsOf(<<cmd.rounds[Len(cmd.rounds)]>>) \subseteq IdsOf(cmd.passed)

\* besides, the claim holds for the runs of one round
C37_OneRoundIsPassed ==
    (PastFishDownloaded /\ settings.enabled /\ Len(cmd.rounds) <= 1)
    => IdsOf(cmd.rounds) \subseteq IdsOf(cmd.passed)

\* two rounds ran, the second downloaded two identifiers and run is done
C37_WitnessSecondRound ==
    /\ cmd.pc = "done" /\ cmd.result = "ok"
    /\ settings.enabled
    /\ Len(cmd.rounds) = 2
    /\ cmd.passed = <<<<<<"A">>, <<"B">>>>>>

(***************************************************************************)
(* Specification of the PID file of `atuin sync`: processes of the command *)
(* run at the same time, with ATUIN_SYNC_PID_FILE naming one file or       *)
(* unset.  The process p has the PID p.  What run does between writing its *)
(* PID and removing the file is one step here, which ends in Ok or in the  *)
(* early return of an error.                                               *)
(***************************************************************************)
\* the number of processes
NumProcs == 2

PROCS == 1..NumProcs

\* the PID of a process that has ended, left in the file by an earlier run
DeadPid == NumProcs + 1

\* a process that has not begun
NoProc == [pc |-> "none", read |-> 0, wrote |-> FALSE, removed |-> FALSE,
           synced |-> FALSE, result |-> "none"]

\* kill -0 pid succeeds: a process with this PID is running
KillSucceeds(pid) ==
    /\ pid \in PROCS
    /\ pid_file.procs[pid].pc \notin {"none", "returned"}

PidUnchanged ==
    UNCHANGED <<exists, content, lock, FISH_INSTALLED, settings, variant, db, pc, caller,
                history, content_read, new_entries, synced, ncalls, before, appended,
                content0, written, returned, last_return, dir_exists, attempts, faults,
                batch, cmd, once>>

\* the process goes to `at`
PidGoto(p, at) ==
    pid_file' = [pid_file EXCEPT !.procs[p].pc = at]

\* run returns `result`
PidReturn(p, result) ==
    pid_file' = [pid_file EXCEPT !.procs[p].pc = "returned", !.procs[p].result = result]

\* run begins: env::var("ATUIN_SYNC_PID_FILE") and create_dir_all(parent)?
PidStart(p) ==
    /\ pid_file.procs[p].pc = "none"
    /\ PidUnchanged
    /\ IF ~pid_file.env THEN PidGoto(p, "body")
       ELSE \/ PidGoto(p, "exists")
            \/ PidReturn(p, "err")

\* if Path::new(&pid_file).exists()
PidExists(p) ==
    /\ pid_file.procs[p].pc = "exists"
    /\ PidUnchanged
    /\ PidGoto(p, IF pid_file.content # 0 THEN "read" ELSE "write")

\* if let Ok(pid_str) = read_to_string(&pid_file), and the parse of the PID
PidRead(p) ==
    /\ pid_file.procs[p].pc = "read"
    /\ PidUnchanged
    /\ IF pid_file.content = 0 THEN PidGoto(p, "write")
       ELSE pid_file' = [pid_file EXCEPT !.procs[p].pc = "kill",
                                         !.procs[p].read = pid_file.content]

\* kill -0 pid: return Ok(()) if it succeeds ("Sync already running")
PidKill(p) ==
    /\ pid_file.procs[p].pc = "kill"
    /\ PidUnchanged
    /\ IF KillSucceeds(pid_file.procs[p].read) THEN PidReturn(p, "ok")
       ELSE PidGoto(p, "write")

\* fs_err::write(&pid_file, std::process::id().to_string())?
PidWrite(p) ==
    /\ pid_file.procs[p].pc = "write"
    /\ PidUnchanged
    /\ \/ pid_file' = [pid_file EXCEPT !.content = p, !.procs[p].pc = "body",
                                       !.procs[p].wrote = TRUE]
       \/ PidReturn(p, "err")

\* run returns early from the sync body by the `?` of one of its steps:
\* nothing else is done
BodyFailed(p) ==
    [pid_file EXCEPT !.procs[p].pc = "returned", !.procs[p].result = "err",
                     !.procs[p].synced = TRUE]

\* the sync body: load_key, the sync rounds, build, the fish calls, the final
\* history_count; it reaches its end, or one of its `?` returns the error
PidBody(p) ==
    /\ pid_file.procs[p].pc = "body"
    /\ PidUnchanged
    /\ \/ pid_file' = [pid_file EXCEPT !.procs[p].pc = "remove", !.procs[p].synced = TRUE]
       \/ pid_file' = BodyFailed(p)

\* let _ = fs_err::remove_file(&pid_file), then Ok(())
PidRemove(p) ==
    /\ pid_file.procs[p].pc = "remove"
    /\ PidUnchanged
    /\ pid_file' = [pid_file EXCEPT
                       !.content = IF pid_file.env THEN 0 ELSE @,
                       !.procs[p].removed = pid_file.env,
                       !.procs[p].pc = "returned", !.procs[p].result = "ok"]

InitPid ==
    /\ exists = FALSE
    /\ content = <<>>
    /\ content0 = content
    /\ settings \in [enabled : BOOLEAN, max_entries : {0}]
    /\ variant = "client"
    /\ db = <<>>
    /\ dir_exists = TRUE
    /\ lock = NONE
    /\ FISH_INSTALLED = "uninit"
    /\ pc = [t \in Threads |-> "idle"]
    /\ attempts = [t \in Threads |-> <<>>]
    /\ faults = <<>>
    /\ batch = [t \in Threads |-> <<>>]
    /\ cmd = NoCmd
    /\ once = NoOnce
    /\ caller = [t \in Threads |-> "none"]
    /\ history = [t \in Threads |-> NoHistory]
    /\ content_read = [t \in Threads |-> <<>>]
    /\ new_entries = [t \in Threads |-> <<>>]
    /\ synced = [t \in Threads |-> 0]
    /\ before = [t \in Threads |-> NoFile]
    /\ appended = [t \in Threads |-> <<>>]
    /\ ncalls = 0
    /\ written = <<>>
    /\ returned = EmptyBag
    /\ last_return = NoReturn
    /\ \E env \in BOOLEAN, left \in {0, DeadPid} :
          pid_file = [env |-> env, content |-> IF env THEN left ELSE 0,
                      procs |-> [p \in PROCS |-> NoProc]]

NextPid ==
    \E p \in PROCS :
        \/ PidStart(p)
        \/ PidExists(p)
        \/ PidRead(p)
        \/ PidKill(p)
        \/ PidWrite(p)
        \/ PidBody(p)
        \/ PidRemove(p)

SpecPid == InitPid /\ [][NextPid]_vars

\* C38: with ATUIN_SYNC_PID_FILE set, at most one process at a time executes
\* the sync body: of two sync commands started together with the same PID
\* file, one returns without syncing.
C38_OneSyncBodyAtATime ==
    pid_file.env => Cardinality({p \in PROCS : pid_file.procs[p].pc = "body"}) <= 1

\* besides, a command returns without syncing only when it has read the PID
\* of another sync command from the file, and it then writes nothing
C38_SkipsOnlyWhenSyncSeen ==
    \A p \in PROCS :
       (pid_file.procs[p].result = "ok" /\ ~pid_file.procs[p].synced)
       => /\ pid_file.env
          /\ pid_file.procs[p].read \in PROCS \ {p}
          /\ ~pid_file.procs[p].wrote

\* a command found the PID of a running sync and returned without syncing
C38_WitnessSkipped ==
    \E p \in PROCS :
       /\ pid_file.procs[p].result = "ok"
       /\ ~pid_file.procs[p].synced
       /\ \E q \in PROCS \ {p} : pid_file.procs[q].pc = "body"

\* C39: whenever the sync command has written its PID to the PID file, the
\* file is removed before the command returns, with success or with an error.
C39_PidFileRemovedOnReturn ==
    \A p \in PROCS :
       (pid_file.procs[p].pc = "returned" /\ pid_file.procs[p].wrote)
       => pid_file.procs[p].removed

\* besides, the file is removed before every return of Ok
C39_PidFileRemovedOnSuccess ==
    \A p \in PROCS :
       (pid_file.procs[p].pc = "returned" /\ pid_file.procs[p].wrote
        /\ pid_file.procs[p].result = "ok")
       => pid_file.procs[p].removed

\* a command wrote its PID, synced, removed the file and returned Ok
C39_WitnessSuccess ==
    \E p \in PROCS :
       /\ pid_file.procs[p].pc = "returned" /\ pid_file.procs[p].wrote
       /\ pid_file.procs[p].result = "ok"
       /\ pid_file.procs[p].removed
       /\ pid_file.content = 0

====
